---- MODULE Spec2Model ----
(***************************************************************************)
(* Template entity, template store and prompt formatting of                *)
(* copilot_image_ai (templates/template_manager.py), its enhancement       *)
(* pipeline (enhancers/image_enhancer.py), its configuration objects       *)
(* (config.py) and its generation facade (generators/image_generator.py).  *)
(*                                                                         *)
(* Representation.  A Python str is a sequence of one-character strings.   *)
(* A list is a sequence.  A dict is a sequence of [key, val] entries in    *)
(* insertion order (the order Python dicts iterate in).  An argument that  *)
(* may be None is a sequence of length 0 (None) or 1 (the value).  The     *)
(* empty str, list and dict are all <<>>, the falsy values of `x or d`.    *)
(***************************************************************************)
EXTENDS Integers, Sequences, FiniteSets, TLC

VARIABLES
    templates,   \* TemplateManager.templates of the store in use
    disk,        \* the store's directory: whether it exists, and its files
    tmpl,        \* the Template a Template method is called on
    last,        \* the call just made: op, arg, ret, raised
    origin,      \* history: how each name now in the collection entered it
    config,      \* the configuration the enhancer reads (self.config.config)
    request,     \* the enhancer call to make: its operation and arguments
    run,         \* the call just made: resolved parameters, steps, files
    heap,        \* config.py: the Config objects, the nested dicts of the
                 \* class attribute DEFAULT_CONFIG, and _global_config
    generator    \* the ImageGenerator: whether its model is loaded

vars ==
    <<templates, disk, tmpl, last, origin, config, request, run, heap, generator>>

(***************************************************************************)
(* Bounds                                                                  *)
(***************************************************************************)
\* longest prompt drawn for format_prompt
MaxPromptLen == 6

\* number of directory scans / constructions along one behaviour is not
\* bounded; the file and template universes below are finite

None == <<>>

Some(v) == <<v>>

(***************************************************************************)
(* str helpers                                                             *)
(***************************************************************************)
UpperCase ==
    <<"A","B","C","D","E","F","G","H","I","J","K","L","M",
      "N","O","P","Q","R","S","T","U","V","W","X","Y","Z">>

LowerCase ==
    <<"a","b","c","d","e","f","g","h","i","j","k","l","m",
      "n","o","p","q","r","s","t","u","v","w","x","y","z">>

\* str.lower() on one character
LowerChar(c) ==
    IF \E i \in 1..26 : UpperCase[i] = c
    THEN LowerCase[CHOOSE i \in 1..26 : UpperCase[i] = c]
    ELSE c

\* str.lower()
lower(s) == [i \in 1..Len(s) |-> LowerChar(s[i])]

\* `needle in hay` for two str
StrIn(needle, hay) ==
    \E i \in 0..(Len(hay) - Len(needle)) :
        SubSeq(hay, i + 1, i + Len(needle)) = needle

\* `x in lst` for a list
ListIn(x, lst) == \E i \in 1..Len(lst) : lst[i] = x

\* `x or d`: d when x is None or falsy (empty str, list, dict)
OrDefault(x, d) ==
    IF x = None THEN d
    ELSE IF x[1] = <<>> THEN d
    ELSE x[1]

(***************************************************************************)
(* dict: a sequence of [key, val] entries in insertion order               *)
(***************************************************************************)
DictKeys(d) == {d[i].key : i \in 1..Len(d)}

DictHas(d, k) == \E i \in 1..Len(d) : d[i].key = k

DictIndex(d, k) == CHOOSE i \in 1..Len(d) : d[i].key = k

\* d.get(k): None when absent
DictGet(d, k) == IF DictHas(d, k) THEN Some(d[DictIndex(d, k)].val) ELSE None

\* a dict that adds an entry on every assignment
DictSet_append(d, k, v) == Append(d, [key |-> k, val |-> v])

\* a dict in which an assigned key moves to the end
DictSet_move_to_end(d, k, v) ==
    Append(SelectSeq(d, LAMBDA e : e.key # k), [key |-> k, val |-> v])

\* d[k] = v: an existing key keeps its position, a new key goes last
DictSet(d, k, v) ==
    IF DictHas(d, k)
    THEN [i \in 1..Len(d) |-> IF d[i].key = k THEN [key |-> k, val |-> v] ELSE d[i]]
    ELSE Append(d, [key |-> k, val |-> v])

\* del d[k]
DictDel(d, k) == SelectSeq(d, LAMBDA e : e.key # k)

\* list(d.values())
DictValues(d) == [i \in 1..Len(d) |-> d[i].val]

(***************************************************************************)
(* Template entity                                                         *)
(***************************************************************************)
\* Template.__init__: the four optional arguments are normalised with `or`
Template(name, description, prompt, negative_prompt, style, parameters, tags) ==
    [name            |-> name,
     description     |-> description,
     prompt          |-> prompt,
     negative_prompt |-> OrDefault(negative_prompt, <<>>),
     style           |-> OrDefault(style, <<"g","e","n","e","r","a","l">>),
     parameters      |-> OrDefault(parameters, <<>>),
     tags            |-> OrDefault(tags, <<>>)]

\* to_dict that leaves "tags" out
to_dict_without_tags(t) ==
    [name            |-> t.name,
     description     |-> t.description,
     prompt          |-> t.prompt,
     negative_prompt |-> t.negative_prompt,
     style           |-> t.style,
     parameters      |-> t.parameters]

\* Template.to_dict: one key per attribute
to_dict(t) ==
    [name            |-> t.name,
     description     |-> t.description,
     prompt          |-> t.prompt,
     negative_prompt |-> t.negative_prompt,
     style           |-> t.style,
     parameters      |-> t.parameters,
     tags            |-> t.tags]

\* data.get(k) on a record read from a file or built by to_dict
RecGet(data, k) == IF k \in DOMAIN data THEN Some(data[k]) ELSE None

\* data["name"], data["description"], data["prompt"] raise KeyError when absent
from_dict_raises(data) == ~({"name", "description", "prompt"} \subseteq DOMAIN data)

\* from_dict that leaves an absent style empty
from_dict_style_unset(data) ==
    [Template(data["name"], data["description"], data["prompt"],
              RecGet(data, "negative_prompt"), RecGet(data, "style"),
              RecGet(data, "parameters"), RecGet(data, "tags"))
     EXCEPT !.style = IF "style" \in DOMAIN data THEN data["style"] ELSE <<>>]

\* Template.from_dict, for a record on which it does not raise
from_dict(data) ==
    Template(data["name"], data["description"], data["prompt"],
             RecGet(data, "negative_prompt"), RecGet(data, "style"),
             RecGet(data, "parameters"), RecGet(data, "tags"))

s_product_photography ==
    <<"p","r","o","d","u","c","t","_","p","h","o","t","o","g","r","a","p","h","y">>

s_landscape_art ==
    <<"l","a","n","d","s","c","a","p","e","_","a","r","t">>

s_portrait_professional ==
    <<"p","o","r","t","r","a","i","t","_","p","r","o","f","e","s","s","i","o","n","a","l">>

s_social_media_post ==
    <<"s","o","c","i","a","l","_","m","e","d","i","a","_","p","o","s","t">>

s_campaign_banner ==
    <<"c","a","m","p","a","i","g","n","_","b","a","n","n","e","r">>

s_abstract_art ==
    <<"a","b","s","t","r","a","c","t","_","a","r","t">>

default_product_photography ==
    Template(s_product_photography,
        <<"P","r","o","f","e","s","s","i","o","n","a","l"," ","p","r","o","d","u","c","t"," ","p",
          "h","o","t","o","g","r","a","p","h","y"," ","t","e","m","p","l","a","t","e">>,
        <<"p","r","o","f","e","s","s","i","o","n","a","l"," ","p","r","o","d","u","c","t"," ","p",
          "h","o","t","o","g","r","a","p","h","y"," ","o","f"," ","{","p","r","o","d","u","c","t",
          "}",","," ","s","t","u","d","i","o"," ","l","i","g","h","t","i","n","g",","," ","w","h",
          "i","t","e"," ","b","a","c","k","g","r","o","u","n","d",","," ","h","i","g","h"," ","d",
          "e","t","a","i","l",","," ","c","o","m","m","e","r","c","i","a","l"," ","q","u","a","l",
          "i","t","y",","," ","8","k">>,
        << <<"b","l","u","r","r","y",","," ","l","o","w"," ","q","u","a","l","i","t","y",","," ","a",
          "m","a","t","e","u","r",","," ","d","i","s","t","o","r","t","e","d",","," ","d","a","r",
          "k">> >>,
        << <<"r","e","a","l","i","s","t","i","c">> >>,
        << <<[key |-> "guidance_scale", val |-> 800]>> >>,
        << << <<"p","r","o","d","u","c","t">>,
              <<"c","o","m","m","e","r","c","i","a","l">>,
              <<"p","h","o","t","o","g","r","a","p","h","y">> >> >>)

default_landscape_art ==
    Template(s_landscape_art,
        <<"B","e","a","u","t","i","f","u","l"," ","l","a","n","d","s","c","a","p","e"," ","a","r",
          "t","w","o","r","k"," ","t","e","m","p","l","a","t","e">>,
        <<"b","e","a","u","t","i","f","u","l"," ","{","l","a","n","d","s","c","a","p","e","_","t",
          "y","p","e","}"," ","l","a","n","d","s","c","a","p","e",","," ","{","t","i","m","e","_",
          "o","f","_","d","a","y","}",","," ","d","r","a","m","a","t","i","c"," ","l","i","g","h",
          "t","i","n","g",","," ","d","e","t","a","i","l","e","d",","," ","a","r","t","s","t","a",
          "t","i","o","n",","," ","c","o","n","c","e","p","t"," ","a","r","t",","," ","s","m","o",
          "o","t","h",","," ","s","h","a","r","p"," ","f","o","c","u","s">>,
        << <<"b","l","u","r","r","y",","," ","u","g","l","y",","," ","d","i","s","t","o","r","t","e",
          "d",","," ","l","o","w"," ","q","u","a","l","i","t","y">> >>,
        << <<"a","r","t","i","s","t","i","c">> >>,
        << <<[key |-> "guidance_scale", val |-> 750]>> >>,
        << << <<"l","a","n","d","s","c","a","p","e">>,
              <<"n","a","t","u","r","e">>,
              <<"a","r","t">> >> >>)

default_portrait_professional ==
    Template(s_portrait_professional,
        <<"P","r","o","f","e","s","s","i","o","n","a","l"," ","p","o","r","t","r","a","i","t"," ",
          "p","h","o","t","o","g","r","a","p","h","y"," ","t","e","m","p","l","a","t","e">>,
        <<"p","r","o","f","e","s","s","i","o","n","a","l"," ","p","o","r","t","r","a","i","t"," ",
          "p","h","o","t","o","g","r","a","p","h"," ","o","f"," ","{","s","u","b","j","e","c","t",
          "}",","," ","s","t","u","d","i","o"," ","l","i","g","h","t","i","n","g",","," ","b","o",
          "k","e","h"," ","b","a","c","k","g","r","o","u","n","d",","," ","d","e","t","a","i","l",
          "e","d"," ","f","a","c","e",","," ","h","i","g","h"," ","q","u","a","l","i","t","y",",",
          " ","5","0","m","m"," ","l","e","n","s",","," ","p","r","o","f","e","s","s","i","o","n",
          "a","l"," ","p","h","o","t","o","g","r","a","p","h","y">>,
        << <<"b","l","u","r","r","y",","," ","l","o","w"," ","q","u","a","l","i","t","y",","," ","d",
          "i","s","t","o","r","t","e","d",","," ","a","m","a","t","e","u","r",","," ","b","a","d",
          " ","a","n","a","t","o","m","y">> >>,
        << <<"r","e","a","l","i","s","t","i","c">> >>,
        << <<[key |-> "guidance_scale", val |-> 700]>> >>,
        << << <<"p","o","r","t","r","a","i","t">>,
              <<"p","r","o","f","e","s","s","i","o","n","a","l">>,
              <<"p","h","o","t","o","g","r","a","p","h","y">> >> >>)

default_social_media_post ==
    Template(s_social_media_post,
        <<"E","y","e","-","c","a","t","c","h","i","n","g"," ","s","o","c","i","a","l"," ","m","e",
          "d","i","a"," ","p","o","s","t"," ","t","e","m","p","l","a","t","e">>,
        <<"m","o","d","e","r","n"," ","s","o","c","i","a","l"," ","m","e","d","i","a"," ","p","o",
          "s","t"," ","d","e","s","i","g","n",","," ","{","t","h","e","m","e","}",","," ","v","i",
          "b","r","a","n","t"," ","c","o","l","o","r","s",","," ","p","r","o","f","e","s","s","i",
          "o","n","a","l",","," ","c","l","e","a","n"," ","l","a","y","o","u","t",","," ","t","r",
          "e","n","d","i","n","g"," ","s","t","y","l","e",","," ","h","i","g","h"," ","e","n","g",
          "a","g","e","m","e","n","t">>,
        << <<"c","l","u","t","t","e","r","e","d",","," ","u","g","l","y",","," ","l","o","w"," ","q",
          "u","a","l","i","t","y",","," ","a","m","a","t","e","u","r">> >>,
        << <<"g","r","a","p","h","i","c","_","d","e","s","i","g","n">> >>,
        << <<[key |-> "guidance_scale", val |-> 750]>> >>,
        << << <<"s","o","c","i","a","l","_","m","e","d","i","a">>,
              <<"m","a","r","k","e","t","i","n","g">>,
              <<"d","e","s","i","g","n">> >> >>)

default_campaign_banner ==
    Template(s_campaign_banner,
        <<"M","a","r","k","e","t","i","n","g"," ","c","a","m","p","a","i","g","n"," ","b","a","n",
          "n","e","r"," ","t","e","m","p","l","a","t","e">>,
        <<"m","a","r","k","e","t","i","n","g"," ","c","a","m","p","a","i","g","n"," ","b","a","n",
          "n","e","r"," ","f","o","r"," ","{","c","a","m","p","a","i","g","n","_","t","y","p","e",
          "}",","," ","{","b","r","a","n","d","_","s","t","y","l","e","}",","," ","e","y","e","-",
          "c","a","t","c","h","i","n","g",","," ","p","r","o","f","e","s","s","i","o","n","a","l",
          " ","d","e","s","i","g","n",","," ","h","i","g","h"," ","i","m","p","a","c","t",","," ",
          "c","o","m","m","e","r","c","i","a","l"," ","q","u","a","l","i","t","y">>,
        << <<"c","l","u","t","t","e","r","e","d",","," ","l","o","w"," ","q","u","a","l","i","t","y",
          ","," ","a","m","a","t","e","u","r",","," ","g","e","n","e","r","i","c">> >>,
        << <<"m","a","r","k","e","t","i","n","g">> >>,
        << <<[key |-> "guidance_scale", val |-> 800]>> >>,
        << << <<"c","a","m","p","a","i","g","n">>,
              <<"m","a","r","k","e","t","i","n","g">>,
              <<"b","a","n","n","e","r">> >> >>)

default_abstract_art ==
    Template(s_abstract_art,
        <<"A","b","s","t","r","a","c","t"," ","a","r","t","i","s","t","i","c"," ","c","r","e","a",
          "t","i","o","n"," ","t","e","m","p","l","a","t","e">>,
        <<"a","b","s","t","r","a","c","t"," ","a","r","t",","," ","{","c","o","l","o","r","_","s",
          "c","h","e","m","e","}",","," ","{","m","o","o","d","}",","," ","f","l","o","w","i","n",
          "g"," ","s","h","a","p","e","s",","," ","c","r","e","a","t","i","v","e",","," ","u","n",
          "i","q","u","e",","," ","a","r","t","s","t","a","t","i","o","n"," ","q","u","a","l","i",
          "t","y">>,
        << <<"r","e","a","l","i","s","t","i","c",","," ","p","h","o","t","o","g","r","a","p","h","i",
          "c",","," ","b","o","r","i","n","g",","," ","l","o","w"," ","q","u","a","l","i","t","y">> >>,
        << <<"a","b","s","t","r","a","c","t">> >>,
        << <<[key |-> "guidance_scale", val |-> 700]>> >>,
        << << <<"a","b","s","t","r","a","c","t">>,
              <<"a","r","t">>,
              <<"c","r","e","a","t","i","v","e">> >> >>)

default_templates ==
    <<default_product_photography,
      default_landscape_art,
      default_portrait_professional,
      default_social_media_post,
      default_campaign_banner,
      default_abstract_art>>

(***************************************************************************)
(* str.format with keyword arguments as CPython runs it: the string is scanned left to  *)
(* right; "{{" and "}}" are escapes; a field runs from "{" to the next "}" *)
(* and is looked up at once, so the first failure met is the one raised.   *)
(* The prompts drawn here carry no ".", "[", "!" or ":" inside a field.    *)
(***************************************************************************)
Digits == {"0","1","2","3","4","5","6","7","8","9"}

FmtOk(s) == [status |-> "ok", value |-> s, key |-> <<>>, msg |-> ""]

FmtRaise(exc, key, msg) == [status |-> exc, value |-> <<>>, key |-> key, msg |-> msg]

\* parse_field: index of the "}" that ends the field starting at j, 0 when
\* a "{" or the end of the string comes first
FieldEnd(p, j) ==
    IF \E e \in j..Len(p) : p[e] \in {"{", "}"}
    THEN LET e == CHOOSE e \in j..Len(p) :
                      /\ p[e] \in {"{", "}"}
                      /\ \A f \in j..(e - 1) : p[f] \notin {"{", "}"}
         IN  IF p[e] = "}" THEN e ELSE 0
    ELSE 0

\* the ValueError parse_field raises when FieldEnd is 0
FieldError(p, j) ==
    IF \E e \in j..Len(p) : p[e] = "{"
    THEN FmtRaise("ValueError", <<>>, "unexpected '{' in field name")
    ELSE FmtRaise("ValueError", <<>>, "expected '}' before end of string")

\* get_field_object with no positional arguments: an empty or all-digit
\* field name is a positional index, any other name is a keyword
FieldValue(name, kwargs) ==
    IF \A i \in 1..Len(name) : name[i] \in Digits
    THEN FmtRaise("IndexError", <<>>,
                  "Replacement index out of range for positional args tuple")
    ELSE IF DictHas(kwargs, name)
    THEN FmtOk(DictGet(kwargs, name)[1])
    ELSE FmtRaise("KeyError", name, "")

RECURSIVE FormatFrom(_, _, _, _)
\* MarkupIterator_next / do_markup, from position i with output acc so far
FormatFrom(p, i, kwargs, acc) ==
    IF i > Len(p) THEN FmtOk(acc)
    ELSE IF p[i] = "}"
    THEN IF i < Len(p) /\ p[i + 1] = "}"
         THEN FormatFrom(p, i + 2, kwargs, Append(acc, "}"))
         ELSE FmtRaise("ValueError", <<>>, "Single '}' encountered in format string")
    ELSE IF p[i] = "{"
    THEN IF i = Len(p)
         THEN FmtRaise("ValueError", <<>>, "Single '{' encountered in format string")
         ELSE IF p[i + 1] = "{"
         THEN FormatFrom(p, i + 2, kwargs, Append(acc, "{"))
         ELSE LET e == FieldEnd(p, i + 1)
              IN  IF e = 0 THEN FieldError(p, i + 1)
                  ELSE LET v == FieldValue(SubSeq(p, i + 1, e - 1), kwargs)
                       IN  IF v.status = "ok"
                           THEN FormatFrom(p, e + 1, kwargs, acc \o v.value)
                           ELSE v
    ELSE FormatFrom(p, i + 1, kwargs, Append(acc, p[i]))

\* str.format with keyword arguments
str_format(p, kwargs) == FormatFrom(p, 1, kwargs, <<>>)

\* format_prompt that returns the prompt as it is when a key is missing
format_prompt_swallow(t, kwargs) ==
    LET r == str_format(t.prompt, kwargs)
    IN  IF r.status = "KeyError" THEN FmtOk(t.prompt) ELSE r

\* format_prompt that rejects an entry the prompt does not use
format_prompt_strict(t, kwargs) ==
    LET r == str_format(t.prompt, kwargs)
    IN  IF \E i \in 1..Len(kwargs) :
               ~StrIn(<<"{">> \o kwargs[i].key \o <<"}">>, t.prompt)
        THEN FmtRaise("ValueError", <<>>, "Unexpected template variable")
        ELSE IF r.status = "KeyError"
        THEN FmtRaise("ValueError", r.key, "Missing required template variable")
        ELSE r

\* Template.format_prompt: a KeyError becomes the ValueError "Missing
\* required template variable: <key>"; any other exception propagates
format_prompt(t, kwargs) ==
    LET r == str_format(t.prompt, kwargs)
    IN  IF r.status = "KeyError"
        THEN FmtRaise("ValueError", r.key, "Missing required template variable")
        ELSE r

(***************************************************************************)
(* Template store                                                          *)
(***************************************************************************)
\* _initialize_default_templates that stops before the last default
initialize_default_templates_short(tpls) ==
    LET RECURSIVE Put(_, _)
        Put(d, i) ==
            IF i >= Len(default_templates) THEN d
            ELSE Put(DictSet(d, default_templates[i].name, default_templates[i]), i + 1)
    IN  Put(tpls, 1)

\* TemplateManager._initialize_default_templates
initialize_default_templates(tpls) ==
    LET RECURSIVE Put(_, _)
        Put(d, i) ==
            IF i > Len(default_templates) THEN d
            ELSE Put(DictSet(d, default_templates[i].name, default_templates[i]), i + 1)
    IN  Put(tpls, 1)

\* add_template that puts the template at the head of the collection
add_template_first(tpls, t) ==
    <<[key |-> t.name, val |-> t]>> \o DictDel(tpls, t.name)

\* add_template that keeps a template already stored under the name
add_template_keep(tpls, t) == IF DictHas(tpls, t.name) THEN tpls ELSE DictSet(tpls, t.name, t)

\* TemplateManager.add_template
add_template(tpls, t) == DictSet(tpls, t.name, t)

\* TemplateManager.get_template
get_template(tpls, name) == DictGet(tpls, name)

\* TemplateManager.list_templates: `if tag:` and `if style:` skip a filter
\* that is None or the empty str
list_templates(tpls, tag, style) ==
    LET all      == DictValues(tpls)
        byTag    == IF tag # None /\ tag[1] # <<>>
                    THEN SelectSeq(all, LAMBDA t : ListIn(tag[1], t.tags))
                    ELSE all
        byStyle  == IF style # None /\ style[1] # <<>>
                    THEN SelectSeq(byTag, LAMBDA t : t.style = style[1])
                    ELSE byTag
    IN  byStyle

\* search_templates that does not lower the query
search_templates_raw_query(tpls, query) ==
    SelectSeq(DictValues(tpls),
              LAMBDA t : \/ StrIn(query, lower(t.name))
                         \/ StrIn(query, lower(t.description))
                         \/ \E i \in 1..Len(t.tags) : StrIn(query, lower(t.tags[i])))

\* TemplateManager.search_templates
search_templates(tpls, query) ==
    LET q == lower(query)
    IN  SelectSeq(DictValues(tpls),
                  LAMBDA t : \/ StrIn(q, lower(t.name))
                             \/ StrIn(q, lower(t.description))
                             \/ \E i \in 1..Len(t.tags) : StrIn(q, lower(t.tags[i])))

(***************************************************************************)
(* The directory: which files exist and what each holds.  A file is named  *)
(* [stem, ext]; its text is either JSON for a record or text json.load     *)
(* rejects.  Files that exist can be read and removed.                     *)
(***************************************************************************)
JsonText(data) == [kind |-> "json", data |-> data]

Garbage == [kind |-> "garbage"]

\* os.path.join(self.template_dir, f"{name}.json")
TemplatePath(name) == [stem |-> name, ext |-> "json"]

FileExists(d, path) == d.exists /\ path \in DOMAIN d.files

WriteFile(d, path, text) ==
    [d EXCEPT !.files = [q \in (DOMAIN d.files) \cup {path} |->
                            IF q = path THEN text ELSE d.files[q]]]

RemoveFile(d, path) ==
    [d EXCEPT !.files = [q \in (DOMAIN d.files) \ {path} |-> d.files[q]]]

\* Path(self.template_dir).mkdir(parents=True, exist_ok=True)
MkDir(d) == [d EXCEPT !.exists = TRUE]

\* save_template that names the default file after the description
save_template_by_description(d, t, target, io) ==
    LET d1   == IF target = None THEN MkDir(d) ELSE d
        path == IF target = None THEN TemplatePath(t.description) ELSE target[1]
    IN  IF io = "open_fails" \/ ~d1.exists
        THEN [disk |-> d1, raised |-> "OSError"]
        ELSE IF io = "write_fails"
        THEN [disk |-> WriteFile(d1, path, Garbage), raised |-> "OSError"]
        ELSE [disk |-> WriteFile(d1, path, JsonText(to_dict(t))), raised |-> ""]

\* TemplateManager.save_template.  target is None or a path; io is what the
\* file system does: "ok", "open_fails" (nothing written) or "write_fails"
\* (the file was opened for writing and is left truncated or partial)
save_template(d, t, target, io) ==
    LET d1   == IF target = None THEN MkDir(d) ELSE d
        path == IF target = None THEN TemplatePath(t.name) ELSE target[1]
    IN  IF io = "open_fails" \/ ~d1.exists
        THEN [disk |-> d1, raised |-> "OSError"]
        ELSE IF io = "write_fails"
        THEN [disk |-> WriteFile(d1, path, Garbage), raised |-> "OSError"]
        ELSE [disk |-> WriteFile(d1, path, JsonText(to_dict(t))), raised |-> ""]

\* load_template that returns the template without inserting it
load_template_detached(tpls, d, path) ==
    IF ~FileExists(d, path)
    THEN [templates |-> tpls, raised |-> "FileNotFoundError", ret |-> None]
    ELSE IF d.files[path].kind # "json"
    THEN [templates |-> tpls, raised |-> "JSONDecodeError", ret |-> None]
    ELSE IF from_dict_raises(d.files[path].data)
    THEN [templates |-> tpls, raised |-> "KeyError", ret |-> None]
    ELSE LET t == from_dict(d.files[path].data)
         IN  [templates |-> tpls, raised |-> "", ret |-> Some(t)]

\* TemplateManager.load_template: open, json.load, from_dict, insert
load_template(tpls, d, path) ==
    IF ~FileExists(d, path)
    THEN [templates |-> tpls, raised |-> "FileNotFoundError", ret |-> None]
    ELSE IF d.files[path].kind # "json"
    THEN [templates |-> tpls, raised |-> "JSONDecodeError", ret |-> None]
    ELSE IF from_dict_raises(d.files[path].data)
    THEN [templates |-> tpls, raised |-> "KeyError", ret |-> None]
    ELSE LET t == from_dict(d.files[path].data)
         IN  [templates |-> DictSet(tpls, t.name, t), raised |-> "", ret |-> Some(t)]

\* the orders os.listdir may return the directory's entries in
ListDirOrders(d) ==
    LET names == DOMAIN d.files
        n     == Cardinality(names)
    IN  {ord \in [1..n -> names] : \A i, j \in 1..n : ord[i] = ord[j] => i = j}

\* an except clause that catches the JSON error only
ExceptionCaught_json_only(exc) == exc = "JSONDecodeError"

\* `except Exception` in load_templates: every exception load_template can
\* raise here is caught
ExceptionCaught(exc) == exc \in {"FileNotFoundError", "JSONDecodeError", "KeyError"}

RECURSIVE load_templates_from(_, _, _, _)
\* the loop of TemplateManager.load_templates over the listing ord; an
\* exception that is not caught ends the loop and reaches the caller
load_templates_from(tpls, d, ord, i) ==
    IF i > Len(ord) THEN [templates |-> tpls, raised |-> ""]
    ELSE IF ord[i].ext = "json"
    THEN LET r == load_template(tpls, d, ord[i])
         IN  IF r.raised # "" /\ ~ExceptionCaught(r.raised)
             THEN [templates |-> r.templates, raised |-> r.raised]
             ELSE load_templates_from(r.templates, d, ord, i + 1)
    ELSE load_templates_from(tpls, d, ord, i + 1)

\* TemplateManager.load_templates on the store's own directory
load_templates(tpls, d, ord) ==
    IF ~d.exists THEN [templates |-> tpls, raised |-> ""]
    ELSE load_templates_from(tpls, d, ord, 1)

\* TemplateManager.__init__
new_store(d, ord) ==
    LET defaults == initialize_default_templates(<<>>)
    IN  IF d.exists THEN load_templates(defaults, d, ord)
        ELSE [templates |-> defaults, raised |-> ""]

\* delete_template that removes the file whether or not the name is stored
delete_template_unlinks(tpls, d, name) ==
    [templates |-> DictDel(tpls, name),
     disk      |-> IF FileExists(d, TemplatePath(name))
                   THEN RemoveFile(d, TemplatePath(name)) ELSE d,
     ret       |-> DictHas(tpls, name)]

\* TemplateManager.delete_template
delete_template(tpls, d, name) ==
    IF DictHas(tpls, name)
    THEN [templates |-> DictDel(tpls, name),
          disk      |-> IF FileExists(d, TemplatePath(name))
                        THEN RemoveFile(d, TemplatePath(name)) ELSE d,
          ret       |-> TRUE]
    ELSE [templates |-> tpls, disk |-> d, ret |-> FALSE]

(***************************************************************************)
(* The templates, files and arguments the operations are called with       *)
(***************************************************************************)
s_Pro == <<"P","r","o">>

s_zz == <<"z","z">>

s_photography == <<"p","h","o","t","o","g","r","a","p","h","y">>

s_art == <<"a","r","t">>

s_artistic == <<"a","r","t","i","s","t","i","c">>

s_realistic == <<"r","e","a","l","i","s","t","i","c">>

s_professional == <<"p","r","o","f","e","s","s","i","o","n","a","l">>

\* a template with every optional argument but tags left out
tpl_pro ==
    Template(s_Pro, <<"S","h","o","t">>, <<"{","a","}">>,
             None, None, None, Some(<< <<"P","h","o","t","o">> >>))

\* a second template of the same name
tpl_pro_v2 ==
    Template(s_Pro, <<"s","t","u","d","i","o">>, <<"{","a","}"," ","{","b","}">>,
             Some(<<"d","a","r","k">>), Some(s_artistic),
             Some(<<[key |-> "num_inference_steps", val |-> 60]>>),
             Some(<<s_art>>))

\* a template named like a built-in default
tpl_landscape ==
    Template(s_landscape_art, <<"P","h","o","t","o","s">>, <<"x">>,
             None, Some(s_realistic), None, Some(<<s_photography>>))

UserTemplates == {tpl_pro, tpl_pro_v2, tpl_landscape}

\* a record without "prompt"
PartialRecord == [name |-> s_Pro, description |-> <<"n","o">>]

path_pro == TemplatePath(s_Pro)

path_landscape == TemplatePath(s_landscape_art)

path_x == [stem |-> <<"x">>, ext |-> "json"]

path_notes == [stem |-> <<"n","o","t","e","s">>, ext |-> "txt"]

NoDirectory == [exists |-> FALSE, files |-> <<>>]

EmptyDirectory == [exists |-> TRUE, files |-> <<>>]

\* the directories a first store is constructed over
InitialDirectories ==
    {NoDirectory,
     EmptyDirectory,
     [exists |-> TRUE,
      files  |-> (path_pro :> JsonText(to_dict(tpl_pro))) @@ (path_x :> Garbage)],
     [exists |-> TRUE,
      files  |-> (path_x :> JsonText(PartialRecord))
                 @@ (path_landscape :> JsonText(to_dict(tpl_landscape)))
                 @@ (path_notes :> JsonText(to_dict(tpl_pro_v2)))],
     [exists |-> TRUE,
      files  |-> (path_x :> JsonText(to_dict(tpl_pro)))
                 @@ (path_pro :> JsonText(to_dict(tpl_pro_v2)))]}

Names == {s_Pro, s_landscape_art, s_zz}

TagFilters == {None, Some(<<>>), Some(s_photography)}

StyleFilters == {None, Some(<<>>), Some(s_artistic)}

Queries == {s_professional, <<"P","H","O","T","O">>}

SaveTemplates == {tpl_pro}

SaveTargets == {None, Some(path_x)}

LoadPaths == {path_pro, path_landscape, path_x}

IOOutcomes == {"ok", "open_fails", "write_fails"}

Call(op, arg, ret, raised) == [op |-> op, arg |-> arg, ret |-> ret, raised |-> raised]

(***************************************************************************)
(* Configuration and enhancement pipeline (config.py,                      *)
(* enhancers/image_enhancer.py).                                           *)
(*                                                                         *)
(* Representation.  A float strength, amount, adjustment or factor is the  *)
(* integer number of hundredths (0.3 is 30, 1.2 is 120).  A raster is its  *)
(* width, its height and px, the filters applied to the source pixels so   *)
(* far, each with its arguments: two rasters are identical when they have  *)
(* the same size and the same filter history (the source pixels are those  *)
(* of an arbitrary picture, which every filter changes).  The              *)
(* configuration is a record of sections, each a record of keys.           *)
(***************************************************************************)
\* "blurry, low quality, distorted"
s_blurry ==
    <<"b","l","u","r","r","y",","," ","l","o","w"," ","q","u","a","l","i","t","y",
      ","," ","d","i","s","t","o","r","t","e","d">>

\* Config.DEFAULT_CONFIG, the keys the generator and the enhancer read
DEFAULT_CONFIG ==
    [generation  |-> [num_inference_steps |-> 50,
                      guidance_scale      |-> 750,
                      default_size        |-> <<512, 512>>,
                      negative_prompt     |-> s_blurry],
     enhancement |-> [upscale_factor   |-> 2,
                      denoise_strength |-> 30,
                      sharpen_amount   |-> 50,
                      color_enhance    |-> TRUE],
     output      |-> [quality |-> 95]]

\* Config.get("<section>.<key>"): None when a part of the key is missing
config_get(cfg, section, key) ==
    IF section \in DOMAIN cfg /\ key \in DOMAIN cfg[section]
    THEN cfg[section][key]
    ELSE None

\* Config.set("<section>.<key>", value)
config_set(cfg, section, key, value) ==
    LET old == IF section \in DOMAIN cfg THEN cfg[section] ELSE <<>>
        new == [k \in (DOMAIN old) \cup {key} |-> IF k = key THEN value ELSE old[k]]
    IN  [s \in (DOMAIN cfg) \cup {section} |-> IF s = section THEN new ELSE cfg[s]]

\* `x or d` for an optional number: d when x is None or 0
OrNumber(x, d) == IF x = None THEN d ELSE IF x[1] = 0 THEN d ELSE x[1]

\* `x if x is not None else d`
IfNotNone(x, d) == IF x = None THEN d ELSE x[1]

\* truth value of an optional number, as `if brightness_adjust:` takes it
TruthyNumber(x) == x # None /\ x[1] # 0

\* truth value of an optional str, as `if output_path:` takes it
TruthyStr(x) == x # None /\ x[1] # ""

\* a PIL image of the given size holding the source pixels
Raster(w, h) ==
    [kind |-> "pil", mode |-> "RGB", width |-> w, height |-> h, px |-> <<>>]

\* a greyscale PIL image (mode "L")
Grey(w, h) == [Raster(w, h) EXCEPT !.mode = "L"]

\* an argument that is neither a path, a PIL image nor an array
Unsupported == [kind |-> "other"]

ImgOk(img) == [raised |-> "", img |-> img]

ImgRaise(e) == [raised |-> e, img |-> None]

\* the raster after one more filter
Applied(img, f, args) == [img EXCEPT !.px = Append(@, [f |-> f, args |-> args])]

\* Image.convert('RGB'): a new image of the same size in mode RGB
convert_RGB(img) == [img EXCEPT !.mode = "RGB"]

\* ImageEnhancer._load_image: the image converted to RGB; any other type
\* raises
load_image(image) ==
    IF image.kind = "pil" THEN ImgOk(convert_RGB(image))
    ELSE ImgRaise("ValueError")

\* Image.resize(new_size, LANCZOS) as _upscale calls it: PIL returns a copy
\* when the size does not change and raises ValueError("height and width
\* must be > 0") for a target dimension below 1
pil_resize(img, w, h) ==
    IF w = img.width /\ h = img.height THEN ImgOk(img)
    ELSE IF w < 1 \/ h < 1 THEN ImgRaise("ValueError")
    ELSE ImgOk([Applied(img, "resize", <<w, h>>) EXCEPT !.width = w, !.height = h])

\* a PIL or cv2 filter call: on a raster without pixels the library either
\* returns the empty raster or raises (lib); the size never changes
pil_filter(img, f, args, lib) ==
    IF img.width = 0 \/ img.height = 0
    THEN IF lib = "raises" THEN ImgRaise("LibraryError") ELSE ImgOk(img)
    ELSE ImgOk(Applied(img, f, args))

\* _upscale that scales the width only
upscale_width_only(image, factor) ==
    pil_resize(image, image.width * factor, image.height)

\* ImageEnhancer._upscale
upscale(image, factor) ==
    pil_resize(image, image.width * factor, image.height * factor)

\* ImageEnhancer._denoise: h = int(strength * 30)
denoise(image, strength, lib) ==
    LET h == (strength * 30) \div 100
    IN  pil_filter(image, "fastNlMeansDenoisingColored", <<h, h, 7, 21>>, lib)

\* ImageEnhancer._sharpen: the image itself for amount <= 0, else an unsharp
\* mask of radius 2, percent int(amount * 150), threshold 3
sharpen(image, amount, lib) ==
    IF amount <= 0 THEN ImgOk(image)
    ELSE pil_filter(image, "UnsharpMask", <<2, (amount * 150) \div 100, 3>>, lib)

\* ImageEnhancer._enhance_color with its default factor 1.3
enhance_color(image, lib) == pil_filter(image, "Color", <<130>>, lib)

\* ImageEnhancer._enhance_contrast with its default factor 1.2
enhance_contrast(image, lib) == pil_filter(image, "Contrast", <<120>>, lib)

\* ImageEnhancer._adjust_brightness: factor = 1.0 + adjustment
adjust_brightness(image, adjustment, lib) ==
    pil_filter(image, "Brightness", <<100 + adjustment>>, lib)

\* the record of one call: the parameters as resolved, the steps run (name,
\* parameter, input and output raster) and the files written
NoRun == [resolved |-> <<>>, steps |-> <<>>, saved |-> <<>>]

\* one step of a pipeline: nothing once a step has raised; else the step's
\* result r becomes the current image and the step is recorded
RunStep(s, name, param, r) ==
    IF s.raised # "" THEN s
    ELSE IF r.raised # "" THEN [s EXCEPT !.raised = r.raised]
    ELSE [img    |-> r.img,
          raised |-> "",
          steps  |-> Append(s.steps, [step   |-> name,
                                      param  |-> param,
                                      input  |-> s.img,
                                      output |-> r.img])]

\* an end of call that writes the current image even after a failed step
Finish_after_failure(s, resolved, output_path, cfg) ==
    [raised |-> s.raised,
     ret    |-> IF s.raised # "" THEN None ELSE Some(s.img),
     run    |-> [resolved |-> resolved, steps |-> s.steps,
                 saved |-> IF TruthyStr(output_path)
                           THEN <<[path    |-> output_path[1],
                                   img     |-> s.img,
                                   quality |-> config_get(cfg, "output", "quality")]>>
                           ELSE <<>>]]

\* the end of a call: img.save(output_path, quality=...) when a path is
\* given, then return
Finish(s, resolved, output_path, cfg) ==
    IF s.raised # ""
    THEN [raised |-> s.raised, ret |-> None,
          run |-> [resolved |-> resolved, steps |-> s.steps, saved |-> <<>>]]
    ELSE [raised |-> "", ret |-> Some(s.img),
          run |-> [resolved |-> resolved, steps |-> s.steps,
                   saved |-> IF TruthyStr(output_path)
                             THEN <<[path    |-> output_path[1],
                                     img     |-> s.img,
                                     quality |-> config_get(cfg, "output", "quality")]>>
                             ELSE <<>>]]

\* enhance that sharpens right after the upscale
enhance_sharpen_first(image, o, cfg, lib) ==
    LET l                == load_image(image)
        upscale_factor   == OrNumber(o.upscale_factor,
                                     config_get(cfg, "enhancement", "upscale_factor"))
        denoise_strength == OrNumber(o.denoise_strength,
                                     config_get(cfg, "enhancement", "denoise_strength"))
        sharpen_amount   == OrNumber(o.sharpen_amount,
                                     config_get(cfg, "enhancement", "sharpen_amount"))
        color_enhance    == IfNotNone(o.color_enhance,
                                      config_get(cfg, "enhancement", "color_enhance"))
        resolved == [upscale_factor   |-> upscale_factor,
                     denoise_strength |-> denoise_strength,
                     sharpen_amount   |-> sharpen_amount,
                     color_enhance    |-> color_enhance]
        s0 == [img |-> l.img, raised |-> "", steps |-> <<>>]
        s1 == IF upscale_factor # 0 /\ upscale_factor > 1
              THEN RunStep(s0, "upscale", upscale_factor,
                           upscale(s0.img, upscale_factor))
              ELSE s0
        s2 == IF o.sharpen
              THEN RunStep(s1, "sharpen", sharpen_amount,
                           sharpen(s1.img, sharpen_amount, lib))
              ELSE s1
        s3 == IF o.denoise
              THEN RunStep(s2, "denoise", denoise_strength,
                           denoise(s2.img, denoise_strength, lib))
              ELSE s2
        s4 == IF color_enhance
              THEN RunStep(s3, "color_enhance", 130,
                           enhance_color(s3.img, lib))
              ELSE s3
        s5 == IF o.contrast_enhance
              THEN RunStep(s4, "contrast_enhance", 120,
                           enhance_contrast(s4.img, lib))
              ELSE s4
        s6 == IF TruthyNumber(o.brightness_adjust)
              THEN RunStep(s5, "brightness_adjust", o.brightness_adjust[1],
                           adjust_brightness(s5.img, o.brightness_adjust[1], lib))
              ELSE s5
    IN  IF l.raised # ""
        THEN [raised |-> l.raised, ret |-> None, run |-> NoRun]
        ELSE Finish(s6, resolved, o.output_path, cfg)

\* ImageEnhancer.enhance.  o holds the arguments of the call, cfg is
\* self.config, lib is what the imaging library does with an empty raster
enhance(image, o, cfg, lib) ==
    LET l                == load_image(image)
        upscale_factor   == OrNumber(o.upscale_factor,
                                     config_get(cfg, "enhancement", "upscale_factor"))
        denoise_strength == OrNumber(o.denoise_strength,
                                     config_get(cfg, "enhancement", "denoise_strength"))
        sharpen_amount   == OrNumber(o.sharpen_amount,
                                     config_get(cfg, "enhancement", "sharpen_amount"))
        color_enhance    == IfNotNone(o.color_enhance,
                                      config_get(cfg, "enhancement", "color_enhance"))
        resolved == [upscale_factor   |-> upscale_factor,
                     denoise_strength |-> denoise_strength,
                     sharpen_amount   |-> sharpen_amount,
                     color_enhance    |-> color_enhance]
        s0 == [img |-> l.img, raised |-> "", steps |-> <<>>]
        s1 == IF upscale_factor # 0 /\ upscale_factor > 1
              THEN RunStep(s0, "upscale", upscale_factor,
                           upscale(s0.img, upscale_factor))
              ELSE s0
        s2 == IF o.denoise
              THEN RunStep(s1, "denoise", denoise_strength,
                           denoise(s1.img, denoise_strength, lib))
              ELSE s1
        s3 == IF color_enhance
              THEN RunStep(s2, "color_enhance", 130,
                           enhance_color(s2.img, lib))
              ELSE s2
        s4 == IF o.contrast_enhance
              THEN RunStep(s3, "contrast_enhance", 120,
                           enhance_contrast(s3.img, lib))
              ELSE s3
        s5 == IF TruthyNumber(o.brightness_adjust)
              THEN RunStep(s4, "brightness_adjust", o.brightness_adjust[1],
                           adjust_brightness(s4.img, o.brightness_adjust[1], lib))
              ELSE s4
        s6 == IF o.sharpen
              THEN RunStep(s5, "sharpen", sharpen_amount,
                           sharpen(s5.img, sharpen_amount, lib))
              ELSE s5
    IN  IF l.raised # ""
        THEN [raised |-> l.raised, ret |-> None, run |-> NoRun]
        ELSE Finish(s6, resolved, o.output_path, cfg)

\* ImageEnhancer.auto_enhance
auto_enhance(image, output_path, cfg, lib) ==
    enhance(image,
            [upscale_factor    |-> None,
             denoise           |-> TRUE,
             denoise_strength  |-> None,
             sharpen           |-> TRUE,
             sharpen_amount    |-> None,
             color_enhance     |-> Some(TRUE),
             contrast_enhance  |-> TRUE,
             brightness_adjust |-> None,
             output_path       |-> output_path],
            cfg, lib)

\* super_resolution that sharpens with the configured amount
super_resolution_configured(image, scale, output_path, cfg, lib) ==
    LET l  == load_image(image)
        a  == config_get(cfg, "enhancement", "sharpen_amount")
        s0 == [img |-> l.img, raised |-> "", steps |-> <<>>]
        s1 == RunStep(s0, "upscale", scale, upscale(s0.img, scale))
        s2 == RunStep(s1, "sharpen", a, sharpen(s1.img, a, lib))
    IN  IF l.raised # ""
        THEN [raised |-> l.raised, ret |-> None, run |-> NoRun]
        ELSE Finish(s2, <<>>, output_path, cfg)

\* ImageEnhancer.super_resolution: _upscale, then _sharpen with 0.3
super_resolution(image, scale, output_path, cfg, lib) ==
    LET l  == load_image(image)
        s0 == [img |-> l.img, raised |-> "", steps |-> <<>>]
        s1 == RunStep(s0, "upscale", scale, upscale(s0.img, scale))
        s2 == RunStep(s1, "sharpen", 30, sharpen(s1.img, 30, lib))
    IN  IF l.raised # ""
        THEN [raised |-> l.raised, ret |-> None, run |-> NoRun]
        ELSE Finish(s2, <<>>, output_path, cfg)

\* no enhancer call is to be made
\* ImageEnhancer.remove_noise: _denoise with the given strength
remove_noise(image, strength, output_path, cfg, lib) ==
    LET l  == load_image(image)
        s0 == [img |-> l.img, raised |-> "", steps |-> <<>>]
        s1 == RunStep(s0, "denoise", strength, denoise(s0.img, strength, lib))
    IN  IF l.raised # ""
        THEN [raised |-> l.raised, ret |-> None, run |-> NoRun]
        ELSE Finish(s1, <<>>, output_path, cfg)

\* ImageEnhancer.adjust_lighting: _adjust_brightness unless brightness is
\* 0.0, then ImageEnhance.Contrast unless contrast is 1.0
adjust_lighting(image, brightness, contrast, output_path, cfg, lib) ==
    LET l  == load_image(image)
        s0 == [img |-> l.img, raised |-> "", steps |-> <<>>]
        s1 == IF brightness # 0
              THEN RunStep(s0, "brightness_adjust", brightness,
                           adjust_brightness(s0.img, brightness, lib))
              ELSE s0
        s2 == IF contrast # 100
              THEN RunStep(s1, "contrast_enhance", contrast,
                           pil_filter(s1.img, "Contrast", <<contrast>>, lib))
              ELSE s1
    IN  IF l.raised # ""
        THEN [raised |-> l.raised, ret |-> None, run |-> NoRun]
        ELSE Finish(s2, <<>>, output_path, cfg)

(***************************************************************************)
(* Config objects (config.py).  A dict is a function from keys to values.  *)
(* The nested dicts of the class attribute DEFAULT_CONFIG are objects that *)
(* every Config refers to: heap.class holds their current content, and an  *)
(* entry of an instance's self.config is either a reference to the class's *)
(* nested dict of that key (Shared) or a value of its own (Own).           *)
(***************************************************************************)
Shared == [shared |-> TRUE]

Own(v) == [shared |-> FALSE, val |-> v]

\* d[k] = v on a dict
SetItem(d, k, v) == [x \in (DOMAIN d) \cup {k} |-> IF x = k THEN v ELSE d[x]]

\* no Config constructed yet, _global_config = None
NoHeap == [class |-> DEFAULT_CONFIG, objects |-> <<>>, global |-> None]

\* Config.__init__ without a file: self.config = self.DEFAULT_CONFIG.copy(),
\* a new dict whose values are the class's nested dicts themselves
Config_init(h) ==
    [h EXCEPT !.objects = Append(@, [k \in DOMAIN h.class |-> Shared])]

\* self.config of the i-th Config as a reader sees it
Config_dict(h, i) ==
    LET c == h.objects[i]
    IN  [k \in DOMAIN c |-> IF c[k].shared THEN h.class[k] ELSE c[k].val]

\* Config.get(key) for key.split('.') = keys, of one or two parts: Some(the
\* value), or None (the default) when a part of the key is missing
Config_get(h, i, keys) ==
    LET d == Config_dict(h, i)
    IN  IF keys[1] \notin DOMAIN d THEN None
        ELSE IF Len(keys) = 1 THEN Some(d[keys[1]])
        ELSE IF keys[2] \in DOMAIN d[keys[1]] THEN Some(d[keys[1]][keys[2]])
        ELSE None

\* Config.set(key, value) for key.split('.') = keys, of one or two parts: the
\* loop binds a missing section to a new dict and steps into the section's
\* dict, and the last assignment writes into the dict reached
Config_set(h, i, keys, value) ==
    LET c == h.objects[i]
        k == keys[1]
    IN  IF Len(keys) = 1
        THEN [h EXCEPT !.objects[i] = SetItem(c, k, Own(value))]
        ELSE IF k \notin DOMAIN c
        THEN [h EXCEPT !.objects[i] = SetItem(c, k, Own(SetItem(<<>>, keys[2], value)))]
        ELSE IF c[k].shared
        THEN [h EXCEPT !.class[k] = SetItem(@, keys[2], value)]
        ELSE [h EXCEPT !.objects[i] =
                  SetItem(c, k, Own(SetItem(c[k].val, keys[2], value)))]

\* get_config(): constructs the global Config when there is none
get_config(h) ==
    IF h.global = None
    THEN [heap |-> [Config_init(h) EXCEPT !.global = Some(Len(h.objects) + 1)],
          ret  |-> Len(h.objects) + 1]
    ELSE [heap |-> h, ret |-> h.global[1]]

\* reset_config()
reset_config(h) == [h EXCEPT !.global = None]

(***************************************************************************)
(* Generation facade (image_generator.py).  The model backend is opaque:   *)
(* from_pretrained and the pipeline call each either succeed or raise, and *)
(* an image the pipeline returns is a raster of the requested size whose   *)
(* history names the call.  A call is recorded like an enhancer call:      *)
(* resolved holds the parameters generate_from_template forwards, steps    *)
(* the backend calls, saved the files written.                             *)
(***************************************************************************)
\* a generator whose model is not loaded
NoGenerator == [model_loaded |-> FALSE]

\* the result of a generator call
GenResult(tpls, gen, raised, msg, ret, forwarded, steps, saved) ==
    [templates |-> tpls, generator |-> gen, raised |-> raised, msg |-> msg,
     ret |-> ret,
     run |-> [resolved |-> forwarded, steps |-> steps, saved |-> saved]]

\* ImageGenerator._load_model: nothing when the model is loaded, else
\* from_pretrained, which may raise
load_model(gen, backend) ==
    IF gen.model_loaded THEN [generator |-> gen, raised |-> "", steps |-> <<>>]
    ELSE IF backend = "load_fails"
    THEN [generator |-> gen, raised |-> "OSError",
          steps |-> <<[step |-> "from_pretrained", args |-> <<>>]>>]
    ELSE [generator |-> [gen EXCEPT !.model_loaded = TRUE], raised |-> "",
          steps |-> <<[step |-> "from_pretrained", args |-> <<>>]>>]

\* an image the pipeline returns
Generated(args, i) ==
    [kind |-> "pil", mode |-> "RGB", width |-> args.width, height |-> args.height,
     px |-> <<[f |-> "pipeline", args |-> <<args.prompt, i>>]>>]

\* ImageGenerator.generate called as generate(prompt=prompt,
\* output_path=output_path, **params): a key of params that is not a
\* parameter of generate, or is prompt or output_path, is a TypeError of the
\* call itself
generate(tpls, prompt, params, output_path, forwarded, cfg, gen, backend) ==
    LET l     == load_model(gen, backend)
        neg   == DictGet(params, "negative_prompt")
        w     == DictGet(params, "width")
        h     == DictGet(params, "height")
        size  == config_get(cfg, "generation", "default_size")
        n     == IfNotNone(DictGet(params, "num_images"), 1)
        args  == [prompt          |-> prompt,
                  negative_prompt |->
                      IF neg = None
                      THEN config_get(cfg, "generation", "negative_prompt")
                      ELSE neg[1],
                  width  |-> IF w = None \/ h = None
                             THEN OrNumber(w, size[1]) ELSE w[1],
                  height |-> IF w = None \/ h = None
                             THEN OrNumber(h, size[2]) ELSE h[1],
                  num_inference_steps |->
                      OrNumber(DictGet(params, "num_inference_steps"),
                               config_get(cfg, "generation", "num_inference_steps")),
                  guidance_scale |->
                      OrNumber(DictGet(params, "guidance_scale"),
                               config_get(cfg, "generation", "guidance_scale")),
                  num_images_per_prompt |-> n]
        call   == <<[step |-> "pipeline", args |-> args]>>
        images == [i \in 1..n |-> Generated(args, i)]
        saved  == IF ~TruthyStr(output_path) THEN <<>>
                  ELSE IF n = 1
                  THEN <<[path |-> [base |-> output_path[1], index |-> None],
                          img  |-> images[1]]>>
                  ELSE [i \in 1..n |->
                           [path |-> [base |-> output_path[1], index |-> Some(i - 1)],
                            img  |-> images[i]]]
    IN  IF \E k \in DictKeys(params) :
               k \notin {"negative_prompt", "width", "height", "num_inference_steps",
                         "guidance_scale", "seed", "num_images"}
        THEN GenResult(tpls, gen, "TypeError", "", None, forwarded, <<>>, <<>>)
        ELSE IF l.raised # ""
        THEN GenResult(tpls, l.generator, l.raised, "", None, forwarded, l.steps, <<>>)
        ELSE IF backend = "call_fails"
        THEN GenResult(tpls, l.generator, "RuntimeError", "", None, forwarded,
                       l.steps \o call, <<>>)
        ELSE GenResult(tpls, l.generator, "", "",
                       Some(IF n = 1 THEN images[1] ELSE images),
                       forwarded, l.steps \o call, saved)

RECURSIVE DictUpdate(_, _)
\* d.update(other)
DictUpdate(d, other) ==
    IF other = <<>> THEN d
    ELSE DictUpdate(DictSet(d, other[1].key, other[1].val), Tail(other))

\* generate_from_template that loads the model before it looks the template up
generate_from_template_eager(tpls, template_name, template_vars, output_path, generation_kwargs, cfg, gen, backend) ==
    LET l        == load_model(gen, backend)
        template == get_template(tpls, template_name)
        kwargs   == OrDefault(template_vars, <<>>)
        prompt   == format_prompt(template[1], kwargs)
        merged   == DictUpdate(template[1].parameters, generation_kwargs)
        params   == IF ~DictHas(merged, "negative_prompt")
                    THEN DictSet(merged, "negative_prompt",
                                 template[1].negative_prompt)
                    ELSE merged
    IN  IF l.raised # ""
        THEN GenResult(tpls, l.generator, l.raised, "", None, None, l.steps, <<>>)
        ELSE IF template = None
        THEN GenResult(tpls, l.generator, "ValueError", "Template not found", None,
                       None, l.steps, <<>>)
        ELSE IF prompt.status # "ok"
        THEN GenResult(tpls, l.generator, prompt.status, prompt.msg, None, None,
                       l.steps, <<>>)
        ELSE generate(tpls, prompt.value, params, output_path, Some(params),
                      cfg, l.generator, backend)

\* generate_from_template that updates the template's own parameters
generate_from_template_in_place(tpls, template_name, template_vars, output_path, generation_kwargs, cfg, gen, backend) ==
    LET template == get_template(tpls, template_name)
        kwargs   == OrDefault(template_vars, <<>>)
        prompt   == format_prompt(template[1], kwargs)
        merged   == DictUpdate(template[1].parameters, generation_kwargs)
        params   == IF ~DictHas(merged, "negative_prompt")
                    THEN DictSet(merged, "negative_prompt",
                                 template[1].negative_prompt)
                    ELSE merged
        stored   == DictSet(tpls, template_name,
                            [template[1] EXCEPT !.parameters = params])
    IN  IF template = None
        THEN GenResult(tpls, gen, "ValueError", "Template not found", None,
                       None, <<>>, <<>>)
        ELSE IF prompt.status # "ok"
        THEN GenResult(tpls, gen, prompt.status, prompt.msg, None, None, <<>>, <<>>)
        ELSE generate(stored, prompt.value, params, output_path, Some(params),
                      cfg, gen, backend)

\* ImageGenerator.generate_from_template: lookup, format_prompt, a copy of
\* the template's parameters updated with the keyword arguments, the
\* template's negative prompt when the merged parameters have none, generate
generate_from_template(tpls, template_name, template_vars, output_path, generation_kwargs, cfg, gen, backend) ==
    LET template == get_template(tpls, template_name)
        kwargs   == OrDefault(template_vars, <<>>)
        prompt   == format_prompt(template[1], kwargs)
        merged   == DictUpdate(template[1].parameters, generation_kwargs)
        params   == IF ~DictHas(merged, "negative_prompt")
                    THEN DictSet(merged, "negative_prompt",
                                 template[1].negative_prompt)
                    ELSE merged
    IN  IF template = None
        THEN GenResult(tpls, gen, "ValueError", "Template not found", None,
                       None, <<>>, <<>>)
        ELSE IF prompt.status # "ok"
        THEN GenResult(tpls, gen, prompt.status, prompt.msg, None, None, <<>>, <<>>)
        ELSE generate(tpls, prompt.value, params, output_path, Some(params),
                      cfg, gen, backend)

\* ImageGenerator.unload_model
unload_model(gen) == [gen EXCEPT !.model_loaded = FALSE]

NoRequest == [op |-> "none"]

(***************************************************************************)
(* Store operations as steps.  `last` is the call just made; `origin`      *)
(* records for every name in the collection whether it entered as a        *)
(* built-in default, by a load or by an add (a name deleted and inserted   *)
(* again enters anew).                                                     *)
(***************************************************************************)
DefaultNames == {default_templates[i].name : i \in 1..Len(default_templates)}

\* origin after a step of the same store that inserts by `how`
Entered(how) ==
    [n \in DictKeys(templates') |-> IF DictHas(templates, n) THEN origin[n] ELSE how]

\* origin in a store just constructed
EnteredFresh(tpls) ==
    [n \in DictKeys(tpls) |-> IF n \in DefaultNames THEN "default" ELSE "load"]

\* store = TemplateManager(): a store constructed over the directory as it is
Construct ==
    \E ord \in ListDirOrders(disk) :
        /\ templates' = new_store(disk, ord).templates
        /\ last' = Call("construct", None, None, new_store(disk, ord).raised)
        /\ origin' = EnteredFresh(templates')
        /\ UNCHANGED <<disk, tmpl, config, request, run, heap, generator>>

Add ==
    \E t \in UserTemplates :
        /\ templates' = add_template(templates, t)
        /\ last' = Call("add", t, None, "")
        /\ origin' = Entered("add")
        /\ UNCHANGED <<disk, tmpl, config, request, run, heap, generator>>

\* a lookup that takes the template out of the collection
Get_popping ==
    \E name \in Names :
        /\ last' = Call("get", name, get_template(templates, name), "")
        /\ templates' = DictDel(templates, name)
        /\ origin' = Entered("none")
        /\ UNCHANGED <<disk, tmpl, config, request, run, heap, generator>>

\* store.get_template(name)
Get ==
    \E name \in Names :
        /\ last' = Call("get", name, get_template(templates, name), "")
        /\ UNCHANGED <<templates, disk, tmpl, origin, config, request, run, heap, generator>>

List ==
    \E tag \in TagFilters, style \in StyleFilters :
        /\ last' = Call("list", [tag |-> tag, style |-> style],
                        list_templates(templates, tag, style), "")
        /\ UNCHANGED <<templates, disk, tmpl, origin, config, request, run, heap, generator>>

Search ==
    \E query \in Queries :
        /\ last' = Call("search", query, search_templates(templates, query), "")
        /\ UNCHANGED <<templates, disk, tmpl, origin, config, request, run, heap, generator>>

Save ==
    \E t \in SaveTemplates, target \in SaveTargets, io \in IOOutcomes :
        LET r == save_template(disk, t, target, io)
        IN  /\ disk' = r.disk
            /\ last' = Call("save", [template |-> t, target |-> target], None, r.raised)
            /\ UNCHANGED <<templates, tmpl, origin, config, request, run, heap, generator>>

Load ==
    \E path \in LoadPaths :
        LET r == load_template(templates, disk, path)
        IN  /\ templates' = r.templates
            /\ last' = Call("load", path, r.ret, r.raised)
            /\ origin' = Entered("load")
            /\ UNCHANGED <<disk, tmpl, config, request, run, heap, generator>>

LoadAll ==
    \E ord \in ListDirOrders(disk) :
        LET r == load_templates(templates, disk, ord)
        IN  /\ templates' = r.templates
            /\ last' = Call("load_all", None, None, r.raised)
            /\ origin' = Entered("load")
            /\ UNCHANGED <<disk, tmpl, config, request, run, heap, generator>>

Delete ==
    \E name \in Names :
        LET r == delete_template(templates, disk, name)
        IN  /\ templates' = r.templates
            /\ disk' = r.disk
            /\ last' = Call("delete", name, r.ret, "")
            /\ origin' = Entered("none")
            /\ UNCHANGED <<tmpl, config, request, run, heap, generator>>

Init ==
    \E d \in InitialDirectories : \E ord \in ListDirOrders(d) :
        /\ disk = d
        /\ templates = new_store(d, ord).templates
        /\ tmpl = tpl_pro
        /\ last = Call("construct", None, None, new_store(d, ord).raised)
        /\ origin = EnteredFresh(templates)
        /\ config = DEFAULT_CONFIG
        /\ request = NoRequest
        /\ run = NoRun
        /\ heap = NoHeap
        /\ generator = NoGenerator

Next ==
    \/ Construct
    \/ Add
    \/ Get
    \/ List
    \/ Search
    \/ Save
    \/ Load
    \/ LoadAll
    \/ Delete

Spec == Init /\ [][Next]_vars

(***************************************************************************)
(* Template.format_prompt on its own: a template is constructed with a     *)
(* prompt drawn from every string over PromptAlphabet up to MaxPromptLen,  *)
(* then format_prompt is called with one of the keyword dicts.             *)
(***************************************************************************)
PromptAlphabet == {"{", "}", "a", "b", "0"}

Prompts == UNION {[1..n -> PromptAlphabet] : n \in 0..MaxPromptLen}

kw_a == <<[key |-> <<"a">>, val |-> <<"x">>]>>

kw_b == <<[key |-> <<"b">>, val |-> <<"y">>]>>

kw_ab == kw_a \o kw_b

\* a value that itself holds braces
kw_braces == <<[key |-> <<"a">>, val |-> <<"{","b","}">>]>> \o kw_b

KwargsChoices == {<<>>, kw_a, kw_b, kw_ab, kw_braces}

InitFormat ==
    \E p \in Prompts :
        /\ tmpl = Template(s_Pro, <<>>, p, None, None, None, None)
        /\ templates = <<>>
        /\ disk = NoDirectory
        /\ origin = <<>>
        /\ last = Call("Template", p, None, "")
        /\ config = DEFAULT_CONFIG
        /\ request = NoRequest
        /\ run = NoRun
        /\ heap = NoHeap
        /\ generator = NoGenerator

FormatPrompt ==
    \E kwargs \in KwargsChoices :
        LET r == format_prompt(tmpl, kwargs)
        IN  /\ last' = Call("format_prompt", kwargs, r,
                            IF r.status = "ok" THEN "" ELSE r.status)
            /\ UNCHANGED <<templates, disk, tmpl, origin, config, request, run, heap, generator>>

NextFormat == FormatPrompt

SpecFormat == InitFormat /\ [][NextFormat]_vars

(***************************************************************************)
(* Template.to_dict / Template.from_dict on their own: a template is       *)
(* constructed from arguments in which every optional one is None, falsy   *)
(* or a value; to_dict and from_dict are then called.                      *)
(***************************************************************************)
Fields ==
    {"name", "description", "prompt", "negative_prompt", "style", "parameters", "tags"}

OptionalStr == {None, Some(<<>>), Some(s_artistic)}

OptionalParameters == {None, Some(<<>>), Some(<<[key |-> "guidance_scale", val |-> 800]>>)}

OptionalTags == {None, Some(<<>>), Some(<<s_art, s_photography>>)}

\* records with any of the seven keys missing
RecordInputs == {[k \in S |-> tpl_pro_v2[k]] : S \in SUBSET Fields}

InitRecord ==
    \E name \in {<<>>, s_Pro}, description \in {<<>>, s_art},
       negative_prompt \in OptionalStr, style \in OptionalStr,
       parameters \in OptionalParameters, tags \in OptionalTags :
        /\ tmpl = Template(name, description, <<"{","a","}">>,
                           negative_prompt, style, parameters, tags)
        /\ templates = <<>>
        /\ disk = NoDirectory
        /\ origin = <<>>
        /\ last = Call("Template",
                       [negative_prompt |-> negative_prompt, style |-> style,
                        parameters |-> parameters, tags |-> tags], None, "")
        /\ config = DEFAULT_CONFIG
        /\ request = NoRequest
        /\ run = NoRun
        /\ heap = NoHeap
        /\ generator = NoGenerator

ToDict ==
    /\ last' = Call("to_dict", None, to_dict(tmpl), "")
    /\ UNCHANGED <<templates, disk, tmpl, origin, config, request, run, heap, generator>>

\* from_dict on the record to_dict just returned, or on one of RecordInputs
FromDict ==
    \E data \in (IF last.op = "to_dict" THEN {last.ret} ELSE {}) \cup RecordInputs :
        /\ last' = IF from_dict_raises(data)
                   THEN Call("from_dict", data, None, "KeyError")
                   ELSE Call("from_dict", data, Some(from_dict(data)), "")
        /\ UNCHANGED <<templates, disk, tmpl, origin, config, request, run, heap, generator>>

NextRecord ==
    \/ ToDict
    \/ FromDict

SpecRecord == InitRecord /\ [][NextRecord]_vars

(***************************************************************************)
(* The enhancer on its own: one call of enhance, auto_enhance or           *)
(* super_resolution is drawn with its arguments; the configuration starts  *)
(* as DEFAULT_CONFIG and is changed by Config.set; the call is then made   *)
(* against the configuration as it stands.                                 *)
(***************************************************************************)
\* the sources a call is given: rasters without pixels, the 400x300 and
\* 100x100 rasters, and an object of an unsupported type
Images == {Raster(0, 0), Raster(0, 3), Raster(400, 300), Unsupported}

OutputPaths == {None, Some("out.png")}

EnhanceRequests ==
    [op                : {"enhance"},
     image             : Images \ {Unsupported},
     upscale_factor    : {None, Some(0), Some(1), Some(2), Some(3)},
     denoise           : BOOLEAN,
     denoise_strength  : {None, Some(0), Some(50)},
     sharpen           : BOOLEAN,
     sharpen_amount    : {None, Some(0), Some(70)},
     color_enhance     : {None, Some(TRUE), Some(FALSE)},
     contrast_enhance  : BOOLEAN,
     brightness_adjust : {None, Some(10)},
     output_path       : OutputPaths]

AutoRequests ==
    [op : {"auto_enhance"}, image : Images, output_path : OutputPaths]

SuperRequests ==
    [op          : {"super_resolution"},
     image       : Images \cup {Raster(100, 100)},
     scale       : {1, 2, 3},
     output_path : OutputPaths]

\* the sources of remove_noise and adjust_lighting calls
LightingImages == {Raster(0, 3), Raster(400, 300), Grey(400, 300), Unsupported}

NoiseRequests ==
    [op          : {"remove_noise"},
     image       : LightingImages,
     strength    : {0, 50},
     output_path : OutputPaths]

LightingRequests ==
    [op          : {"adjust_lighting"},
     image       : LightingImages,
     brightness  : {0, 10},
     contrast    : {100, 120},
     output_path : OutputPaths]

\* the Config.set calls made on the enhancer's configuration
ConfigSettings ==
    {[section |-> "enhancement", key |-> "upscale_factor", value |-> 1],
     [section |-> "enhancement", key |-> "sharpen_amount", value |-> 80]}

\* what the imaging library does with a raster that has no pixels
LibOutcomes == {"ok", "raises"}

InitEnhance ==
    /\ request \in EnhanceRequests \cup AutoRequests \cup SuperRequests
                   \cup NoiseRequests \cup LightingRequests
    /\ config = DEFAULT_CONFIG
    /\ run = NoRun
    /\ heap = NoHeap
    /\ generator = NoGenerator
    /\ last = Call("none", None, None, "")
    /\ templates = <<>>
    /\ disk = NoDirectory
    /\ tmpl = tpl_pro
    /\ origin = <<>>

\* config.set(key, value)
SetConfig ==
    \E s \in ConfigSettings :
        /\ config' = config_set(config, s.section, s.key, s.value)
        /\ last' = Call("set", None, None, "")
        /\ run' = NoRun
        /\ UNCHANGED <<templates, disk, tmpl, origin, request, heap, generator>>

Enhance ==
    /\ request.op = "enhance"
    /\ \E lib \in LibOutcomes :
        LET r == enhance(request.image, request, config, lib)
        IN  /\ last' = Call("enhance", request, r.ret, r.raised)
            /\ run' = r.run
            /\ UNCHANGED <<templates, disk, tmpl, origin, config, request, heap, generator>>

AutoEnhance ==
    /\ request.op = "auto_enhance"
    /\ \E lib \in LibOutcomes :
        LET r == auto_enhance(request.image, request.output_path, config, lib)
        IN  /\ last' = Call("auto_enhance", request, r.ret, r.raised)
            /\ run' = r.run
            /\ UNCHANGED <<templates, disk, tmpl, origin, config, request, heap, generator>>

SuperResolution ==
    /\ request.op = "super_resolution"
    /\ \E lib \in LibOutcomes :
        LET r == super_resolution(request.image, request.scale,
                                  request.output_path, config, lib)
        IN  /\ last' = Call("super_resolution", request, r.ret, r.raised)
            /\ run' = r.run
            /\ UNCHANGED <<templates, disk, tmpl, origin, config, request, heap, generator>>

RemoveNoise ==
    /\ request.op = "remove_noise"
    /\ \E lib \in LibOutcomes :
        LET r == remove_noise(request.image, request.strength,
                              request.output_path, config, lib)
        IN  /\ last' = Call("remove_noise", request, r.ret, r.raised)
            /\ run' = r.run
            /\ UNCHANGED <<templates, disk, tmpl, origin, config, request, heap, generator>>

AdjustLighting ==
    /\ request.op = "adjust_lighting"
    /\ \E lib \in LibOutcomes :
        LET r == adjust_lighting(request.image, request.brightness,
                                 request.contrast, request.output_path,
                                 config, lib)
        IN  /\ last' = Call("adjust_lighting", request, r.ret, r.raised)
            /\ run' = r.run
            /\ UNCHANGED <<templates, disk, tmpl, origin, config, request, heap, generator>>

NextEnhance ==
    \/ SetConfig
    \/ Enhance
    \/ AutoEnhance
    \/ SuperResolution
    \/ RemoveNoise
    \/ AdjustLighting

SpecEnhance == InitEnhance /\ [][NextEnhance]_vars

(***************************************************************************)
(* Config objects on their own: instances are constructed directly or by   *)
(* get_config(), read and written with get and set, and the global one is  *)
(* dropped by reset_config().                                              *)
(***************************************************************************)
MaxConfigs == 3

\* the Config.set calls made
SetCalls ==
    <<[keys |-> <<"enhancement", "upscale_factor">>, value |-> 4],
     [keys |-> <<"enhancement", "upscale_factor">>, value |-> 2],
     [keys |-> <<"output", "quality">>, value |-> 80],
     [keys |-> <<"custom", "x">>, value |-> 1],
     [keys |-> <<"output">>, value |-> [quality |-> 80]]>>

InitConfig ==
    /\ heap = NoHeap
    /\ last = Call("none", None, None, "")
    /\ templates = <<>>
    /\ disk = NoDirectory
    /\ tmpl = tpl_pro
    /\ origin = <<>>
    /\ config = DEFAULT_CONFIG
    /\ request = NoRequest
    /\ run = NoRun
    /\ generator = NoGenerator

\* Config()
NewConfig ==
    /\ Len(heap.objects) < MaxConfigs
    /\ heap' = Config_init(heap)
    /\ last' = Call("Config", None, Some(Len(heap'.objects)), "")
    /\ UNCHANGED <<templates, disk, tmpl, origin, config, request, run, generator>>

\* get_config()
GetConfig ==
    /\ heap.global # None \/ Len(heap.objects) < MaxConfigs
    /\ heap' = get_config(heap).heap
    /\ last' = Call("get_config", None, Some(get_config(heap).ret), "")
    /\ UNCHANGED <<templates, disk, tmpl, origin, config, request, run, generator>>

\* reset_config()
ResetConfig ==
    /\ heap' = reset_config(heap)
    /\ last' = Call("reset_config", None, None, "")
    /\ UNCHANGED <<templates, disk, tmpl, origin, config, request, run, generator>>

\* c.set(key, value) on any Config c
ConfigSet ==
    \E i \in 1..Len(heap.objects), n \in 1..Len(SetCalls) :
        /\ heap' = Config_set(heap, i, SetCalls[n].keys, SetCalls[n].value)
        /\ last' = Call("set", [object |-> i, call |-> SetCalls[n]], None, "")
        /\ UNCHANGED <<templates, disk, tmpl, origin, config, request, run, generator>>

\* c.get(key) on any Config c
ConfigGet ==
    \E i \in 1..Len(heap.objects),
       keys \in {<<"enhancement", "upscale_factor">>, <<"output", "quality">>,
                 <<"custom", "x">>, <<"output">>} :
        /\ last' = Call("get", [object |-> i, keys |-> keys],
                        Config_get(heap, i, keys), "")
        /\ UNCHANGED <<templates, disk, tmpl, origin, config, request, run, heap,
                       generator>>

NextConfig ==
    \/ NewConfig
    \/ GetConfig
    \/ ResetConfig
    \/ ConfigSet
    \/ ConfigGet

SpecConfig == InitConfig /\ [][NextConfig]_vars

(***************************************************************************)
(* The generator on its own: an ImageGenerator over a store that holds the *)
(* built-in templates and two added ones; generate_from_template and       *)
(* generate are called with the arguments below, and unload_model drops    *)
(* the model.                                                              *)
(***************************************************************************)
s_quiet == <<"q","u","i","e","t">>

\* a template whose parameters hold a negative prompt of their own
tpl_quiet ==
    Template(s_quiet, <<"S","t","i","l","l">>, <<"{","a","}"," ","{","b","}">>,
             Some(<<"d","a","r","k">>), None,
             Some(<<[key |-> "negative_prompt", val |-> <<"g","r","e","y">>],
                    [key |-> "num_inference_steps", val |-> 60]>>),
             None)

\* the store of the generator: TemplateManager() without a directory, then
\* two add_template calls
GeneratorStore ==
    add_template(add_template(new_store(NoDirectory, <<>>).templates, tpl_pro),
                 tpl_quiet)

\* the keyword arguments of a generate_from_template call
Overrides ==
    << <<>>,
       <<[key |-> "num_inference_steps", val |-> 30]>>,
       <<[key |-> "negative_prompt", val |-> <<"u","g","l","y">>]>>,
       <<[key |-> "guidance_scale", val |-> 0],
         [key |-> "num_images", val |-> 2]>>,
       <<[key |-> "sampler", val |-> 1]>> >>

InitGenerate ==
    /\ templates = GeneratorStore
    /\ generator = NoGenerator
    /\ config = DEFAULT_CONFIG
    /\ last = Call("none", None, None, "")
    /\ run = NoRun
    /\ disk = NoDirectory
    /\ tmpl = tpl_pro
    /\ origin = <<>>
    /\ request = NoRequest
    /\ heap = NoHeap

\* generator.generate_from_template(name, vars, output_path, **overrides) for
\* the two added templates and a name that is not stored; the backend's
\* from_pretrained or pipeline call may fail
GenerateFromTemplate ==
    \E name \in {s_Pro, s_quiet, s_zz},
       tv \in {None, Some(kw_a), Some(kw_b), Some(kw_ab)},
       out \in OutputPaths,
       n \in 1..Len(Overrides),
       backend \in {"ok", "load_fails", "call_fails"} :
        LET r == generate_from_template(templates, name, tv, out, Overrides[n],
                                        config, generator, backend)
        IN  /\ templates' = r.templates
            /\ generator' = r.generator
            /\ run' = r.run
            /\ last' = [op |-> "generate_from_template",
                        arg |-> [template_name |-> name, template_vars |-> tv,
                                 output_path |-> out, overrides |-> Overrides[n]],
                        ret |-> r.ret, raised |-> r.raised, msg |-> r.msg]
            /\ UNCHANGED <<disk, tmpl, origin, config, request, heap>>

\* generator.generate(prompt, output_path=..., **overrides)
Generate ==
    \E out \in OutputPaths, n \in 1..Len(Overrides),
       backend \in {"ok", "load_fails", "call_fails"} :
        LET r == generate(templates, <<"x">>, Overrides[n], out, None,
                          config, generator, backend)
        IN  /\ templates' = r.templates
            /\ generator' = r.generator
            /\ run' = r.run
            /\ last' = [op |-> "generate",
                        arg |-> [output_path |-> out, overrides |-> Overrides[n]],
                        ret |-> r.ret, raised |-> r.raised, msg |-> r.msg]
            /\ UNCHANGED <<disk, tmpl, origin, config, request, heap>>

\* generator.unload_model()
UnloadModel ==
    /\ generator' = unload_model(generator)
    /\ last' = Call("unload_model", None, None, "")
    /\ run' = NoRun
    /\ UNCHANGED <<templates, disk, tmpl, origin, config, request, heap>>

NextGenerate ==
    \/ GenerateFromTemplate
    \/ Generate
    \/ UnloadModel

SpecGenerate == InitGenerate /\ [][NextGenerate]_vars

(***************************************************************************)
(* Properties of the template store (checked under Spec)                   *)
(***************************************************************************)
\* the keys of the collection in iteration order
KeyOrder(tpls) == [i \in 1..Len(tpls) |-> tpls[i].key]

TemplateNames(ts) == [i \in 1..Len(ts) |-> ts[i].name]

\* the file at path is a *.json file holding a record with the required keys
ValidRecordAt(d, path) ==
    /\ FileExists(d, path)
    /\ path.ext = "json"
    /\ d.files[path].kind = "json"
    /\ {"name", "description", "prompt"} \subseteq DOMAIN d.files[path].data

ValidRecords(d) == {path \in DOMAIN d.files : ValidRecordAt(d, path)}

CorruptRecords(d) ==
    {path \in DOMAIN d.files : d.exists /\ path.ext = "json" /\ ~ValidRecordAt(d, path)}

RecordTemplate(d, path) == from_dict(d.files[path].data)

\* C1: immediately after add(t), get(t.name) returns exactly t (all fields
\* equal); after a delete(name), get(name) returns the not-found value None
\* and raises nothing.
C1_AddGetDelete ==
    /\ last.op = "add" =>
          /\ get_template(templates, last.arg.name) = Some(last.arg)
          /\ \A f \in Fields : get_template(templates, last.arg.name)[1][f] = last.arg[f]
    /\ last.op = "delete" => get_template(templates, last.arg) = None

\* a template was added over a built-in default of the same name
C1_Witness ==
    /\ last.op = "add"
    /\ last.arg = tpl_landscape
    /\ get_template(templates, s_landscape_art) = Some(tpl_landscape)
    /\ tpl_landscape # default_landscape_art

C2_OnePerName ==
    /\ \A i, j \in 1..Len(templates) : templates[i].key = templates[j].key => i = j
    /\ \A i \in 1..Len(templates) : templates[i].key = templates[i].val.name

C2_Replace ==
    /\ (last'.op = "add" /\ DictHas(templates, last'.arg.name)) =>
          /\ last'.raised = ""
          /\ Len(templates') = Len(templates)
          /\ DictGet(templates', last'.arg.name) = Some(last'.arg)
    /\ (last'.op = "load" /\ last'.ret # None /\ DictHas(templates, last'.ret[1].name)) =>
          /\ last'.raised = ""
          /\ Len(templates') = Len(templates)
          /\ DictGet(templates', last'.ret[1].name) = last'.ret

\* C2: in every state reached by construction, add, load, load_all, save and
\* delete the collection holds at most one template per name and every entry
\* is stored under its own name; an add or a load of a name that already
\* exists (a built-in default's included) replaces that entry without an
\* error and without a second entry.
C2_UniqueNames == []C2_OnePerName /\ [][C2_Replace]_vars

\* a load replaced a built-in default: still one entry per name
C2_Witness ==
    /\ last.op = "load"
    /\ last.ret = Some(tpl_landscape)
    /\ Len(templates) = Len(default_templates)
    /\ get_template(templates, s_landscape_art) = Some(tpl_landscape)

\* no *.json file of the directory holds a valid record named name
NoRecordOf(d, name) ==
    \A path \in ValidRecords(d) : RecordTemplate(d, path).name # name

C3_Delete ==
    last'.op = "delete" =>
        IF DictHas(templates, last'.arg)
        THEN /\ last'.ret = TRUE
             /\ ~DictHas(templates', last'.arg)
             /\ NoRecordOf(disk', last'.arg)
        ELSE last'.ret = FALSE

\* C3: delete(name) on a store that contains name returns true, removes the
\* entry from memory and leaves no persisted record of that template in the
\* directory (a store constructed afterwards does not get it from disk);
\* delete(name) on a store that does not contain name returns false.
C3_DeleteRemovesRecord == [][C3_Delete]_vars

C4_NoAbort == last.op \in {"construct", "load_all"} => last.raised = ""

\* every valid record is in the collection
C4_EveryValidPresent ==
    last.op \in {"construct", "load_all"} =>
        \A path \in ValidRecords(disk) :
            get_template(templates, RecordTemplate(disk, path).name)
                = Some(RecordTemplate(disk, path))

\* every valid record's name is in the collection, held by a valid record
\* of that name
C4_SomeValidPresent ==
    last.op \in {"construct", "load_all"} =>
        \A path \in ValidRecords(disk) :
            \E other \in ValidRecords(disk) :
                /\ RecordTemplate(disk, other).name = RecordTemplate(disk, path).name
                /\ get_template(templates, RecordTemplate(disk, path).name)
                       = Some(RecordTemplate(disk, other))

\* going from pre to post, an entry is new or changed only by a valid record
C4_OnlyValid(pre, post, d) ==
    /\ \A i \in 1..Len(post) :
          \/ DictGet(pre, post[i].key) = Some(post[i].val)
          \/ \E path \in ValidRecords(d) : post[i].val = RecordTemplate(d, path)
    /\ \A k \in DictKeys(pre) : DictHas(post, k)

C4_ScanStep ==
    last'.op = "load_all" => C4_OnlyValid(templates, templates', disk)

C4_ConstructOnlyValid ==
    last.op = "construct" =>
        C4_OnlyValid(initialize_default_templates(<<>>), templates, disk)

\* C4 as claimed: load_all over a directory with valid and corrupt records
\* never aborts, every valid record of the directory is in the collection
\* afterwards, a corrupt record contributes nothing, no error reaches the
\* caller; the same at store construction.
C4_LoadAllAsClaimed ==
    /\ [](C4_NoAbort /\ C4_EveryValidPresent /\ C4_ConstructOnlyValid)
    /\ [][C4_ScanStep]_vars

\* C4 (amended): as claimed, except that of several valid records with the
\* same name the collection holds one under that name.
C4_LoadAllSkipsCorrupt ==
    /\ [](C4_NoAbort /\ C4_SomeValidPresent /\ C4_ConstructOnlyValid)
    /\ [][C4_ScanStep]_vars

\* a scan over a directory holding a valid and a corrupt record
C4_Witness ==
    /\ last.op = "load_all"
    /\ ValidRecords(disk) # {}
    /\ \E path \in CorruptRecords(disk) : disk.files[path].kind = "json"
    /\ \E path \in CorruptRecords(disk) : disk.files[path].kind = "garbage"

OriginRank(how) == CASE how = "default" -> 1 [] how = "load" -> 2 [] how = "add" -> 3

\* list() and search() return their templates in collection order
C5_InCollectionOrder ==
    last.op \in {"list", "search"} =>
        last.ret = SelectSeq(DictValues(templates), LAMBDA t : ListIn(t, last.ret))

\* defaults, then loaded templates, then added templates
C5_ThreeSegments ==
    \A i, j \in 1..Len(templates) :
        i < j => OriginRank(origin[templates[i].key]) <= OriginRank(origin[templates[j].key])

\* after construction: the defaults in their built-in order, then loaded ones
C5_Constructed ==
    last.op = "construct" =>
        /\ SubSeq(KeyOrder(templates), 1, Len(default_templates))
               = TemplateNames(default_templates)
        /\ \A i \in (Len(default_templates) + 1)..Len(templates) :
               \E path \in ValidRecords(disk) :
                   templates[i].val = RecordTemplate(disk, path)

\* how one call changes the order: a new name goes last, an existing name
\* keeps its place, a deleted name leaves the others in place
C5_OrderStep ==
    LET before == KeyOrder(templates)
        after  == KeyOrder(templates')
        PutLast(name) == IF DictHas(templates, name) THEN after = before
                         ELSE after = Append(before, name)
    IN  /\ last'.op = "add" => PutLast(last'.arg.name)
        /\ (last'.op = "load" /\ last'.ret # None) => PutLast(last'.ret[1].name)
        /\ (last'.op = "load" /\ last'.ret = None) => after = before
        /\ last'.op = "load_all" =>
              /\ Len(after) >= Len(before)
              /\ SubSeq(after, 1, Len(before)) = before
        /\ last'.op = "delete" => after = SelectSeq(before, LAMBDA n : n # last'.arg)
        /\ last'.op \in {"get", "list", "search", "save"} => after = before

\* C5 as claimed: list and search return templates in insertion order:
\* built-in defaults first, then templates in the order they were loaded,
\* then templates in the order they were first added; adding an existing
\* name replaces its content and leaves its position unchanged.
C5_OrderAsClaimed ==
    /\ [](C5_InCollectionOrder /\ C5_Constructed /\ C5_ThreeSegments)
    /\ [][C5_OrderStep]_vars

\* C5 (amended): list and search return templates in insertion order:
\* built-in defaults first, then the templates loaded at construction, then
\* every template in the order it was first inserted afterwards, by add or
\* by load alike; an add or load of an existing name leaves its position.
C5_InsertionOrder ==
    /\ [](C5_InCollectionOrder /\ C5_Constructed)
    /\ [][C5_OrderStep]_vars

\* list() returned a template that was loaded after a template that was added
C5_Witness ==
    /\ last.op = "list"
    /\ last.arg = [tag |-> None, style |-> None]
    /\ \E i, j \in 1..Len(last.ret) :
          /\ i < j
          /\ origin[last.ret[i].name] = "add"
          /\ origin[last.ret[j].name] = "load"

\* a template passes the filters a caller supplied
C6_Matches(t, tag, style) ==
    /\ tag # None => ListIn(tag[1], t.tags)
    /\ style # None => t.style = style[1]

\* C6: list(tag, style) returns exactly the templates that satisfy every
\* supplied filter, for every value a caller can supply; on the default set
\* list(style="artistic") is [landscape_art] and list(tag="photography") is
\* product_photography and portrait_professional.
C6_ListFilters ==
    last.op = "list" =>
        /\ last.ret = SelectSeq(DictValues(templates),
                                LAMBDA t : C6_Matches(t, last.arg.tag, last.arg.style))
        /\ (templates = initialize_default_templates(<<>>)
                /\ last.arg = [tag |-> None, style |-> Some(s_artistic)])
              => TemplateNames(last.ret) = <<s_landscape_art>>
        /\ (templates = initialize_default_templates(<<>>)
                /\ last.arg = [tag |-> Some(s_photography), style |-> None])
              => TemplateNames(last.ret) = <<s_product_photography, s_portrait_professional>>

\* case folding of the letters A-Z, character by character
C7_Fold(s) ==
    [i \in 1..Len(s) |->
        IF \E k \in 1..26 : UpperCase[k] = s[i]
        THEN LowerCase[CHOOSE k \in 1..26 : UpperCase[k] = s[i]]
        ELSE s[i]]

C7_Hit(t, query) ==
    \/ StrIn(C7_Fold(query), C7_Fold(t.name))
    \/ StrIn(C7_Fold(query), C7_Fold(t.description))
    \/ \E i \in 1..Len(t.tags) : StrIn(C7_Fold(query), C7_Fold(t.tags[i]))

\* C7: search(query) returns exactly the templates whose case-folded name,
\* description or one of whose case-folded tags contains the case-folded
\* query, in the order of list(); search("professional") on the default set
\* returns portrait_professional and the templates whose description holds
\* "professional" in any letter case.
C7_Search ==
    last.op = "search" =>
        /\ last.ret = SelectSeq(list_templates(templates, None, None),
                                LAMBDA t : C7_Hit(t, last.arg))
        /\ (templates = initialize_default_templates(<<>>) /\ last.arg = s_professional)
              => TemplateNames(last.ret) = <<s_product_photography, s_portrait_professional>>

\* an upper-case query found a template by a mixed-case tag and others by
\* lower-case fields
C7_Witness ==
    /\ last.op = "search"
    /\ last.arg = <<"P","H","O","T","O">>
    /\ ListIn(tpl_pro, last.ret)
    /\ ListIn(default_product_photography, last.ret)
    /\ ~ListIn(default_abstract_art, last.ret)

(***************************************************************************)
(* Properties of format_prompt (checked under SpecFormat)                  *)
(***************************************************************************)
\* the keys k for which "{k}" stands in the prompt
Placeholders(p) ==
    {SubSeq(p, i + 1, j - 1) : <<i, j>> \in
        {ij \in (1..Len(p)) \X (1..Len(p)) :
            /\ ij[1] + 1 < ij[2]
            /\ p[ij[1]] = "{"
            /\ p[ij[2]] = "}"
            /\ \A k \in (ij[1] + 1)..(ij[2] - 1) : p[k] \notin {"{", "}"}}}

\* a key that is an identifier: not empty, no brace, no leading digit
IsIdentifier(k) ==
    /\ k # <<>>
    /\ k[1] \notin Digits
    /\ \A i \in 1..Len(k) : k[i] \notin {"{", "}"}

\* the prompt is plain text and {key} placeholders with identifier keys
\* only: every brace is one end of such a placeholder
PlainPrompt(p) ==
    \A i \in 1..Len(p) :
        /\ p[i] = "{" => \E j \in (i + 2)..Len(p) :
                             p[j] = "}" /\ IsIdentifier(SubSeq(p, i + 1, j - 1))
        /\ p[i] = "}" => \E j \in 1..(i - 2) :
                             p[j] = "{" /\ IsIdentifier(SubSeq(p, j + 1, i - 1))

MissingKeys(p, kwargs) == {k \in Placeholders(p) : ~DictHas(kwargs, k)}

IsMissingVariable(r, p, kwargs) ==
    /\ r.status = "ValueError"
    /\ r.msg = "Missing required template variable"
    /\ r.key \in MissingKeys(p, kwargs)

\* C8 as claimed: format_prompt fails with MissingVariable naming a missing
\* key, and returns no string, whenever at least one placeholder of the
\* prompt has no entry in the variables, wherever it stands and however
\* many other placeholders are satisfied.
C8_MissingAsClaimed ==
    (last.op = "format_prompt" /\ MissingKeys(tmpl.prompt, last.arg) # {})
        => IsMissingVariable(last.ret, tmpl.prompt, last.arg)

\* C8 (amended): the same for a prompt made of plain text and {key}
\* placeholders with identifier keys only (no doubled, empty or unpaired
\* brace).
C8_MissingVariable ==
    (last.op = "format_prompt" /\ PlainPrompt(tmpl.prompt)
        /\ MissingKeys(tmpl.prompt, last.arg) # {})
        => IsMissingVariable(last.ret, tmpl.prompt, last.arg)

\* {a} is satisfied and the later {b} is not
C8_Witness ==
    /\ last.op = "format_prompt"
    /\ tmpl.prompt = <<"{","a","}","{","b","}">>
    /\ last.arg = kw_a
    /\ last.ret.key = <<"b">>
    /\ last.raised = "ValueError"

RECURSIVE Substituted(_, _)
\* a plain prompt with every {key} replaced by the value of key
Substituted(p, kwargs) ==
    IF p = <<>> THEN <<>>
    ELSE IF Head(p) = "{"
    THEN LET j == CHOOSE j \in 2..Len(p) :
                      p[j] = "}" /\ \A k \in 2..(j - 1) : p[k] # "}"
         IN  DictGet(kwargs, SubSeq(p, 2, j - 1))[1]
                 \o Substituted(SubSeq(p, j + 1, Len(p)), kwargs)
    ELSE <<Head(p)>> \o Substituted(Tail(p), kwargs)

\* no value substituted into the prompt holds a brace
BraceFreeValues(p, kwargs) ==
    \A i \in 1..Len(kwargs) :
        kwargs[i].key \in Placeholders(p) =>
            \A k \in 1..Len(kwargs[i].val) : kwargs[i].val[k] \notin {"{", "}"}

C10_RoundTrip ==
    (last.op = "from_dict" /\ last.arg = to_dict(tmpl)) =>
        /\ last.raised = ""
        /\ last.ret # None
        /\ \A f \in Fields : last.ret[1][f] = tmpl[f]

\* the round trip of a template constructed with defaults and with values
C10_Witness ==
    /\ last.op = "from_dict"
    /\ last.arg = to_dict(tmpl)
    /\ tmpl.negative_prompt = <<>>
    /\ tmpl.style = <<"g","e","n","e","r","a","l">>
    /\ tmpl.tags = <<s_art, s_photography>>

\* C11: from_dict fails (KeyError) when the record lacks name, description
\* or prompt; when those three are present it succeeds, every present field
\* is taken over, and each absent optional field takes its default:
\* negative_prompt empty, style "general", parameters empty, tags empty.
C11_DefaultOf(f) ==
    IF f = "style" THEN <<"g","e","n","e","r","a","l">> ELSE <<>>

C11_FromRecord ==
    last.op = "from_dict" =>
        IF \E f \in {"name", "description", "prompt"} : f \notin DOMAIN last.arg
        THEN /\ last.raised = "KeyError"
             /\ last.ret = None
        ELSE /\ last.raised = ""
             /\ last.ret # None
             /\ \A f \in {"name", "description", "prompt"} :
                    last.ret[1][f] = last.arg[f]
             /\ \A f \in {"negative_prompt", "style", "parameters", "tags"} :
                    last.ret[1][f] = IF f \in DOMAIN last.arg
                                     THEN last.arg[f]
                                     ELSE C11_DefaultOf(f)

\* a record with the three required keys only, read with all four defaults
C11_Witness ==
    /\ last.op = "from_dict"
    /\ DOMAIN last.arg = {"name", "description", "prompt"}
    /\ last.raised = ""
    /\ last.ret[1].style = <<"g","e","n","e","r","a","l">>
    /\ last.ret[1].tags = <<>>

(***************************************************************************)
(* Properties of the store (checked under Spec), continued                 *)
(***************************************************************************)
\* the built-in templates as the specification's table lists them
C12_Table ==
   {[name  |-> <<"p","r","o","d","u","c","t","_","p","h","o","t","o","g","r","a","p","h","y">>,
     style |-> <<"r","e","a","l","i","s","t","i","c">>,
     tags  |-> {<<"p","r","o","d","u","c","t">>,
               <<"c","o","m","m","e","r","c","i","a","l">>,
               <<"p","h","o","t","o","g","r","a","p","h","y">>},
     placeholders |-> {<<"p","r","o","d","u","c","t">>}],
    [name  |-> <<"l","a","n","d","s","c","a","p","e","_","a","r","t">>,
     style |-> <<"a","r","t","i","s","t","i","c">>,
     tags  |-> {<<"l","a","n","d","s","c","a","p","e">>,
               <<"n","a","t","u","r","e">>,
               <<"a","r","t">>},
     placeholders |-> {<<"l","a","n","d","s","c","a","p","e","_","t","y","p","e">>,
                      <<"t","i","m","e","_","o","f","_","d","a","y">>}],
    [name  |-> <<"p","o","r","t","r","a","i","t","_","p","r","o","f","e","s","s","i","o","n","a","l">>,
     style |-> <<"r","e","a","l","i","s","t","i","c">>,
     tags  |-> {<<"p","o","r","t","r","a","i","t">>,
               <<"p","r","o","f","e","s","s","i","o","n","a","l">>,
               <<"p","h","o","t","o","g","r","a","p","h","y">>},
     placeholders |-> {<<"s","u","b","j","e","c","t">>}],
    [name  |-> <<"s","o","c","i","a","l","_","m","e","d","i","a","_","p","o","s","t">>,
     style |-> <<"g","r","a","p","h","i","c","_","d","e","s","i","g","n">>,
     tags  |-> {<<"s","o","c","i","a","l","_","m","e","d","i","a">>,
               <<"m","a","r","k","e","t","i","n","g">>,
               <<"d","e","s","i","g","n">>},
     placeholders |-> {<<"t","h","e","m","e">>}],
    [name  |-> <<"c","a","m","p","a","i","g","n","_","b","a","n","n","e","r">>,
     style |-> <<"m","a","r","k","e","t","i","n","g">>,
     tags  |-> {<<"c","a","m","p","a","i","g","n">>,
               <<"m","a","r","k","e","t","i","n","g">>,
               <<"b","a","n","n","e","r">>},
     placeholders |-> {<<"c","a","m","p","a","i","g","n","_","t","y","p","e">>,
                      <<"b","r","a","n","d","_","s","t","y","l","e">>}],
    [name  |-> <<"a","b","s","t","r","a","c","t","_","a","r","t">>,
     style |-> <<"a","b","s","t","r","a","c","t">>,
     tags  |-> {<<"a","b","s","t","r","a","c","t">>,
               <<"a","r","t">>,
               <<"c","r","e","a","t","i","v","e">>},
     placeholders |-> {<<"c","o","l","o","r","_","s","c","h","e","m","e">>,
                      <<"m","o","o","d">>}]}

\* the store was just constructed over a missing or an empty directory
C12_OverNothing ==
    /\ last.op = "construct"
    /\ ~disk.exists \/ DOMAIN disk.files = {}

\* C12: a store constructed over an empty or missing directory contains
\* exactly the six built-in templates of the table, each with the style,
\* the tags and the placeholders listed there.
C12_BuiltIns ==
    C12_OverNothing =>
        /\ Len(templates) = 6
        /\ {templates[i].key : i \in 1..Len(templates)} = {row.name : row \in C12_Table}
        /\ \A i \in 1..Len(templates) : \E row \in C12_Table :
               /\ templates[i].key = row.name
               /\ templates[i].val.name = row.name
               /\ templates[i].val.style = row.style
               /\ {templates[i].val.tags[k] : k \in 1..Len(templates[i].val.tags)} = row.tags
               /\ Placeholders(templates[i].val.prompt) = row.placeholders

\* a store constructed over a directory that exists and holds no file
C12_Witness ==
    /\ C12_OverNothing
    /\ disk.exists
    /\ Len(templates) = 6
    /\ DictHas(templates, s_abstract_art)

\* the location a save call writes to: the target when one is given, else
\* the file named after the template under the store's directory
C13_Location(arg) ==
    IF arg.target = None
    THEN [stem |-> arg.template.name, ext |-> "json"]
    ELSE arg.target[1]

\* the step wrote the record of the template at the location and nothing else
C13_OneRecord(arg) ==
    LET path == C13_Location(arg)
    IN  /\ disk'.exists
        /\ DOMAIN disk'.files = (DOMAIN disk.files) \cup {path}
        /\ disk'.files[path].kind = "json"
        /\ \A f \in Fields : disk'.files[path].data[f] = arg.template[f]
        /\ \A q \in (DOMAIN disk.files) \ {path} : disk'.files[q] = disk.files[q]

\* C13: save(template, target?) writes exactly one record, at the file named
\* after the template under the store's directory when no target is given,
\* and never changes the in-memory collection, whether the write succeeds
\* or fails (OSError): no rollback, no insertion of the saved template.
C13_SaveStep ==
    last'.op = "save" =>
        /\ templates' = templates
        /\ last'.raised \in {"", "OSError"}
        /\ last'.raised = "" => C13_OneRecord(last'.arg)

C13_Save == [][C13_SaveStep]_vars

\* a successful save to the default location of a template that is not in
\* the collection
C13_Witness ==
    /\ last.op = "save"
    /\ last.raised = ""
    /\ last.arg.target = None
    /\ FileExists(disk, C13_Location(last.arg))
    /\ disk.files[C13_Location(last.arg)].kind = "json"
    /\ ~DictHas(templates, last.arg.template.name)

\* the call just made entered a template: an add, or a load that returned
C14_JustEntered ==
    \/ last.op = "add"
    \/ last.op = "load" /\ last.raised = ""

C14_EnteredTemplate == IF last.op = "add" THEN last.arg ELSE last.ret[1]

\* the operation that follows returns the template just entered
C14_VisibleNext ==
    C14_JustEntered =>
        LET t == C14_EnteredTemplate
        IN  /\ (last'.op = "get" /\ last'.arg = t.name) => last'.ret = Some(t)
            /\ (last'.op = "list" /\ last'.arg.tag = None /\ last'.arg.style = None)
                   => ListIn(t, last'.ret)
            /\ (last'.op = "search" /\ C7_Hit(t, last'.arg)) => ListIn(t, last'.ret)

\* only save and delete change the persisted records
C14_PersistedUnchanged ==
    last'.op \in {"add", "load", "load_all", "get", "list", "search"} => disk' = disk

\* C14: a template entered by add or by load is returned by get, list (no
\* filter) and search (matching query) in the very next operation, and
\* add, load, load_all, get, list and search leave every persisted record
\* unchanged.
C14_Visibility == [][C14_VisibleNext /\ C14_PersistedUnchanged]_vars

\* a search returns a template that was added and has no persisted record
C14_Witness ==
    /\ last.op = "search"
    /\ ListIn(tpl_pro, last.ret)
    /\ DictHas(templates, s_Pro)
    /\ origin[s_Pro] = "add"
    /\ ~FileExists(disk, TemplatePath(s_Pro))

(***************************************************************************)
(* Properties of the enhancement pipeline (checked under SpecEnhance)      *)
(***************************************************************************)
\* the position of each step in the fixed order
C15_Rank(step) ==
    CASE step = "upscale"           -> 1
      [] step = "denoise"           -> 2
      [] step = "color_enhance"     -> 3
      [] step = "contrast_enhance"  -> 4
      [] step = "brightness_adjust" -> 5
      [] step = "sharpen"           -> 6

\* the steps a call of enhance enables, by its arguments as resolved
C15_Enabled ==
    (IF run.resolved.upscale_factor > 1 THEN {"upscale"} ELSE {})
    \cup (IF request.denoise THEN {"denoise"} ELSE {})
    \cup (IF run.resolved.color_enhance THEN {"color_enhance"} ELSE {})
    \cup (IF request.contrast_enhance THEN {"contrast_enhance"} ELSE {})
    \cup (IF request.brightness_adjust \notin {None, Some(0)}
          THEN {"brightness_adjust"} ELSE {})
    \cup (IF request.sharpen THEN {"sharpen"} ELSE {})

\* C15: in every enhance call the enabled steps run in the fixed order
\* upscale, denoise, color-enhance, contrast-enhance, brightness-adjust,
\* sharpen, each step taking the previous step's output (the first one the
\* source) as its input; a call that returns has run exactly the enabled
\* steps and returns the last step's output.
C15_FixedOrder ==
    last.op \in {"enhance", "auto_enhance"} =>
        LET steps == run.steps
        IN  /\ \A i, j \in 1..Len(steps) :
                   i < j => C15_Rank(steps[i].step) < C15_Rank(steps[j].step)
            /\ \A i \in 1..Len(steps) :
                   steps[i].input = IF i = 1 THEN request.image ELSE steps[i - 1].output
            /\ last.raised = "" =>
                   last.ret = Some(IF steps = <<>> THEN request.image
                                   ELSE steps[Len(steps)].output)
            /\ (last.op = "enhance" /\ last.raised = "") =>
                   {steps[i].step : i \in 1..Len(steps)} = C15_Enabled

\* a call in which all six steps ran
C15_Witness ==
    /\ last.op = "enhance"
    /\ last.raised = ""
    /\ Len(run.steps) = 6
    /\ run.steps[1].step = "upscale"
    /\ run.steps[6].step = "sharpen"

\* the call just made is an enhance that returned, with sharpen on, the
\* caller's sharpen_amount 0, and no other step enabled
C16_SharpenOnlyAtZero ==
    /\ last.op = "enhance"
    /\ last.raised = ""
    /\ request.sharpen
    /\ request.sharpen_amount = Some(0)
    /\ ~request.denoise
    /\ request.color_enhance = Some(FALSE)
    /\ ~request.contrast_enhance
    /\ request.brightness_adjust = None
    /\ \A i \in 1..Len(run.steps) : run.steps[i].step = "sharpen"

\* C16: with upscale, denoise, color-enhance, contrast-enhance and
\* brightness disabled, enhance with sharpen=true, sharpen_amount=0 returns
\* the raster that enhance with sharpen=false returns: the sharpen step is
\* applied as a no-op, with no filter invocation.
C16_SharpenNoOp ==
    C16_SharpenOnlyAtZero =>
        /\ \A lib \in LibOutcomes :
               last.ret = enhance(request.image, [request EXCEPT !.sharpen = FALSE],
                                  config, lib).ret
        /\ last.ret[1].px = request.image.px

\* the step that receives each resolved parameter
C17_StepOf(p) ==
    CASE p = "upscale_factor"   -> "upscale"
      [] p = "denoise_strength" -> "denoise"
      [] p = "sharpen_amount"   -> "sharpen"

\* C17: in enhance, the value each step receives is fixed once, before the
\* first step runs: for upscale_factor, denoise_strength and sharpen_amount
\* it is the caller's value whenever the caller supplied one (0 included),
\* and the enhancement.* configuration value only when the caller left the
\* parameter unset.
C17_CallerValueWins ==
    last.op = "enhance" =>
        \A p \in {"upscale_factor", "denoise_strength", "sharpen_amount"} :
            \A i \in 1..Len(run.steps) :
                run.steps[i].step = C17_StepOf(p) =>
                    /\ run.steps[i].param = run.resolved[p]
                    /\ run.steps[i].param = IF request[p] # None
                                            THEN request[p][1]
                                            ELSE config.enhancement[p]

\* the names of the steps the call just made has run
C18_StepsRun == {run.steps[i].step : i \in 1..Len(run.steps)}

\* C18: auto_enhance applies denoise, color-enhance, contrast-enhance and
\* sharpen and leaves upscale and brightness off unless the configuration
\* was changed to enable them: with the configuration never changed, the
\* result has the dimensions of the input and no brightness step runs.
C18_AutoEnhance ==
    (last.op = "auto_enhance" /\ last.raised = "") =>
        /\ {"denoise", "color_enhance", "contrast_enhance", "sharpen"} \subseteq C18_StepsRun
        /\ "brightness_adjust" \notin C18_StepsRun
        /\ config = DEFAULT_CONFIG =>
               /\ last.ret[1].width = request.image.width
               /\ last.ret[1].height = request.image.height

\* the call just made had to upscale a source without pixels: an enhance
\* that resolved an upscale factor above 1, or a super_resolution
C19_UpscaleOfEmpty ==
    /\ request.op \in {"enhance", "super_resolution"}
    /\ last.op = request.op
    /\ request.image.kind = "pil"
    /\ request.image.width = 0 \/ request.image.height = 0
    /\ last.op = "enhance" => run.resolved.upscale_factor > 1

\* C19: upscale fails with InvalidDimensions (a ValueError), producing no
\* image, whenever the source raster has zero width or zero height, in
\* enhance with an upscale factor above 1 and in super_resolution alike.
C19_InvalidDimensions ==
    C19_UpscaleOfEmpty =>
        /\ last.raised = "ValueError"
        /\ last.ret = None
        /\ run.steps = <<>>
        /\ run.saved = <<>>

\* C20: for every source of width w and height h and every upscale_factor
\* k >= 1 given by the caller, whichever other steps are enabled, an enhance
\* call on a source with pixels returns, and the raster enhance returns has
\* width w*k and height h*k (k = 2 on 400x300 gives 800x600; k = 1 leaves
\* the dimensions unchanged).
C20_Dimensions ==
    (last.op = "enhance" /\ request.upscale_factor \notin {None, Some(0)}) =>
        LET k == request.upscale_factor[1]
            w == request.image.width
            h == request.image.height
        IN  /\ (w > 0 /\ h > 0) => last.raised = ""
            /\ last.raised = "" =>
                   /\ last.ret[1].width = w * k
                   /\ last.ret[1].height = h * k

\* upscale_factor=2 on 400x300 with every other step enabled gives 800x600
C20_Witness ==
    /\ last.op = "enhance"
    /\ request.upscale_factor = Some(2)
    /\ request.image = Raster(400, 300)
    /\ Len(run.steps) = 6
    /\ last.ret[1].width = 800
    /\ last.ret[1].height = 600

\* C21: super_resolution(scale) is a strict two-step pipeline, upscale by
\* scale then sharpen with the fixed amount 0.3, whatever the enhancement.*
\* configuration holds: on a source with pixels it returns a raster of width
\* w*scale and height h*scale (100x100 with scale 3 gives 300x300), and no
\* denoise, color, contrast or brightness step runs.
C21_TwoSteps ==
    (last.op = "super_resolution" /\ request.image.kind = "pil") =>
        LET w == request.image.width
            h == request.image.height
        IN  /\ \A i \in 1..Len(run.steps) :
                   /\ i <= 2
                   /\ i = 1 => (run.steps[i].step = "upscale"
                                /\ run.steps[i].param = request.scale)
                   /\ i = 2 => (run.steps[i].step = "sharpen"
                                /\ run.steps[i].param = 30)
            /\ (w > 0 /\ h > 0) => last.raised = ""
            /\ last.raised = "" =>
                   /\ Len(run.steps) = 2
                   /\ last.ret = Some(run.steps[2].output)
                   /\ run.steps[2].input = run.steps[1].output
                   /\ run.steps[1].input = request.image
                   /\ last.ret[1].width = w * request.scale
                   /\ last.ret[1].height = h * request.scale

\* 100x100 with scale 3 gives 300x300 under a configuration that was changed
C21_Witness ==
    /\ last.op = "super_resolution"
    /\ request.image = Raster(100, 100)
    /\ request.scale = 3
    /\ config # DEFAULT_CONFIG
    /\ last.ret[1].width = 300
    /\ last.ret[1].height = 300
    /\ Len(run.steps) = 2

\* C22: adjust_lighting(brightness, contrast) applies only brightness and
\* then contrast, skips the brightness step when brightness == 0 and the
\* contrast step when contrast == 1, and with brightness = 0.0 and
\* contrast = 1.0 returns a raster identical to the input.
C22_Expected ==
    (IF request.brightness # 0 THEN <<"brightness_adjust">> ELSE <<>>)
    \o (IF request.contrast # 100 THEN <<"contrast_enhance">> ELSE <<>>)

C22_Lighting ==
    (last.op = "adjust_lighting" /\ last.raised = "") =>
        /\ [i \in 1..Len(run.steps) |-> run.steps[i].step] = C22_Expected
        /\ (request.brightness = 0 /\ request.contrast = 100) =>
               last.ret = Some(request.image)

\* C25: in enhance (and in auto_enhance, super_resolution, remove_noise,
\* adjust_lighting) the output sink is written at most once per call, after
\* the last step has finished and with the final raster; a call without a
\* sink writes nothing, and a call in which a step fails writes nothing.
C25_Calls ==
    {"enhance", "auto_enhance", "super_resolution", "remove_noise",
     "adjust_lighting"}

C25_WrittenOnce ==
    last.op \in C25_Calls =>
        /\ Len(run.saved) <= 1
        /\ request.output_path = None => run.saved = <<>>
        /\ last.raised # "" => run.saved = <<>>
        /\ run.saved # <<>> =>
               /\ run.saved[1].path = request.output_path[1]
               /\ last.ret = Some(run.saved[1].img)
               /\ run.steps # <<>> =>
                      run.saved[1].img = run.steps[Len(run.steps)].output

\* an enhance call of several steps that wrote its result
C25_Witness ==
    /\ last.op = "enhance"
    /\ Len(run.steps) >= 3
    /\ Len(run.saved) = 1
    /\ run.saved[1].img = run.steps[Len(run.steps)].output
    /\ run.saved[1].img # request.image

\* C26: get, list and search never change the store: after any of them,
\* with any argument, the collection (its entries and their order) and the
\* persisted records are the same as before the call.
C26_ReadOnly ==
    [][last'.op \in {"get", "list", "search"} =>
           (templates' = templates /\ disk' = disk)]_vars

\* a lookup that found a template, in a store with persisted records
C26_Witness ==
    /\ last.op = "get"
    /\ last.ret # None
    /\ Len(templates) > Len(default_templates)
    /\ DOMAIN disk.files # {}

\* C28: a template's list position is kept only across an overwrite: after
\* delete(name) followed by add of a template with the same name, that
\* template is the last element of list(), after every template that was in
\* the collection during the delete.
C28_DeleteThenAdd ==
    [][(last.op = "delete" /\ last'.op = "add" /\ last'.arg.name = last.arg) =>
           LET all == list_templates(templates', None, None)
           IN  /\ Len(all) = Len(templates) + 1
               /\ all[Len(all)] = last'.arg
               /\ \A i \in 1..Len(templates) : all[i] = templates[i].val]_vars

\* a built-in template that was deleted and added again: it is last, behind
\* the other built-in templates
C28_Witness ==
    /\ last.op = "add"
    /\ last.arg.name = s_landscape_art
    /\ origin[s_landscape_art] = "add"
    /\ Len(templates) >= Len(default_templates)
    /\ templates[Len(templates)].key = s_landscape_art
    /\ default_templates[Len(default_templates)].name # s_landscape_art

\* C29: delete(name) for a name that is not in the in-memory collection
\* changes nothing and returns false even when a persisted record for name
\* exists under the directory (for example after save of a template that was
\* never added): the record stays and a store constructed afterwards over
\* the same directory loads it.
C29_Record(d, name) ==
    /\ FileExists(d, TemplatePath(name))
    /\ d.files[TemplatePath(name)].kind = "json"
    /\ ~from_dict_raises(d.files[TemplatePath(name)].data)
    /\ from_dict(d.files[TemplatePath(name)].data).name = name

C29_DeleteAbsent ==
    [][/\ (last'.op = "delete" /\ ~DictHas(templates, last'.arg)) =>
              (last'.ret = FALSE /\ templates' = templates /\ disk' = disk)
       /\ (/\ last.op = "delete"
           /\ last.ret = FALSE
           /\ C29_Record(disk, last.arg)
           /\ last'.op = "construct") =>
              (DictHas(templates', last.arg) /\ disk' = disk)]_vars

\* a delete that returned false for a name with a persisted record
C29_Witness ==
    /\ last.op = "delete"
    /\ last.ret = FALSE
    /\ ~DictHas(templates, last.arg)
    /\ C29_Record(disk, last.arg)

\* C27: after reset_config(), the next get_config() returns a configuration
\* in which every key has its built-in default value, whatever set() calls
\* were made before the reset on the global configuration or on any other
\* Config instance.
C27_DefaultsAfterReset ==
    [][(last.op = "reset_config" /\ last'.op = "get_config") =>
           Config_dict(heap', last'.ret[1]) = DEFAULT_CONFIG]_vars

(***************************************************************************)
(* Properties of the generator (checked under SpecGenerate)                *)
(***************************************************************************)
\* the template a generate_from_template call asked for, and its variables
C23_Template == get_template(templates, last.arg.template_name)

C23_Vars == OrDefault(last.arg.template_vars, <<>>)

C23_NothingDone == run.steps = <<>> /\ run.saved = <<>>

\* C23: generate_from_template invokes the model backend only after the
\* template lookup and format_prompt have both succeeded: for an unknown
\* name it fails with the ValueError "Template not found", for a missing
\* variable with the ValueError "Missing required template variable", and in
\* both cases the backend is never loaded or called and nothing is written
\* to the output sink.
C23_BackendAfterFormat ==
    last.op = "generate_from_template" =>
        /\ C23_Template = None =>
               /\ last.raised = "ValueError"
               /\ last.msg = "Template not found"
               /\ C23_NothingDone
        /\ (C23_Template # None
            /\ MissingKeys(C23_Template[1].prompt, C23_Vars) # {}) =>
               /\ last.raised = "ValueError"
               /\ last.msg = "Missing required template variable"
               /\ C23_NothingDone
        /\ run.steps # <<>> =>
               /\ C23_Template # None
               /\ MissingKeys(C23_Template[1].prompt, C23_Vars) = {}

\* a call with a sink that stopped at a missing variable, the model unloaded
C23_Witness ==
    /\ last.op = "generate_from_template"
    /\ last.arg.template_name = s_quiet
    /\ last.arg.template_vars = Some(kw_a)
    /\ last.arg.output_path # None
    /\ last.msg = "Missing required template variable"
    /\ ~generator.model_loaded
    /\ C23_NothingDone

\* C24: the parameters generate_from_template forwards are the template's
\* parameters overlaid with the caller's overrides: every key in overrides
\* carries the caller's value, every key only in template.parameters carries
\* the template's value, and negative_prompt is the template's stored
\* negative prompt exactly when the caller did not supply one.
C24_Overlay ==
    (last.op = "generate_from_template" /\ run.resolved # None) =>
        LET forwarded == run.resolved[1]
            overrides == last.arg.overrides
            t         == C23_Template[1]
        IN  /\ \A k \in DictKeys(overrides) :
                   DictGet(forwarded, k) = DictGet(overrides, k)
            /\ \A k \in DictKeys(t.parameters) \ DictKeys(overrides) :
                   DictGet(forwarded, k) = DictGet(t.parameters, k)
            /\ ~DictHas(overrides, "negative_prompt") =>
                   DictGet(forwarded, "negative_prompt") = Some(t.negative_prompt)

\* C30: generate_from_template never changes the store or the template it
\* uses: after a call with any overrides (successful or failed), the
\* template's parameters and negative_prompt are what they were before, so
\* the overrides of one call never appear in the parameters forwarded by a
\* later call.
C30_StoreKept ==
    last.op = "generate_from_template" =>
        /\ templates = GeneratorStore
        /\ run.resolved # None =>
               LET original == get_template(GeneratorStore,
                                            last.arg.template_name)[1]
               IN  \A k \in DictKeys(run.resolved[1]) \ DictKeys(last.arg.overrides) :
                       \/ DictGet(run.resolved[1], k) = DictGet(original.parameters, k)
                       \/ /\ k = "negative_prompt"
                          /\ ~DictHas(original.parameters, k)
                          /\ DictGet(run.resolved[1], k) = Some(original.negative_prompt)

\* a later call without overrides (the model was loaded by an earlier call)
\* on a template with parameters
C30_Witness ==
    /\ last.op = "generate_from_template"
    /\ last.arg.template_name = s_quiet
    /\ last.arg.overrides = <<>>
    /\ last.raised = ""
    /\ generator.model_loaded
    /\ run.steps # <<>>
    /\ run.steps[1].step = "pipeline"
    /\ templates = GeneratorStore

====
